---------------------------- MODULE Spec2Model ----------------------------
(***************************************************************************)
(* A model of ush/stofs_2d_glo/tide3.py: the constituent cache             *)
(* (LoadConstit, LoadSecond and the readers of the ft03, ft07 and ft08     *)
(* files), the harmonic synthesis (tide_t, tide_hours), the extrema search *)
(* (tide_MaxMin), the secondary-station transform (secTide_t,              *)
(* secTide_hours) and the multi-year driver (TideC_stn).                   *)
(*                                                                         *)
(* Arithmetic is fixed point.  Time is counted in ticks of 0.025 h, so     *)
(* that MAX_RES (0.05 h) is 2 ticks and a start time may fall between two  *)
(* points of the search grid.  Angles are counted in units of 0.375        *)
(* degrees (960 to the circle), speeds in units of 15 degrees per hour     *)
(* (one angle unit per tick).  Heights are counted in units of 1e-5.       *)
(* xode, amp and mllw keep the raw thousandths of the files, vpu and epoc  *)
(* the raw tenths of a degree.  Division rounds down.                      *)
(***************************************************************************)
EXTENDS Integers, Sequences, FiniteSets, Bags, TLC

VARIABLES
    ft03,       \* the yearly file (its layout, see Ft03Files)
    ft07,       \* the station file
    ft08,       \* the secondary-station adjustment file
    tc,         \* a TideConstitType owned by a caller of LoadConstit
    st,         \* a SecondaryType owned by a caller of LoadSecond
    last,       \* the last call made on tc or st, and its outcome
    prev,       \* the call before it
    drv,        \* the activation record of TideC_stn
    syn         \* inputs and results of the synthesis functions

vars == <<ft03, ft07, ft08, tc, st, last, prev, drv, syn>>

---------------------------------------------------------------------------
(* Program constants and units *)

NUMT == 37

\* MAX_RES = 0.05 h, in ticks of 0.025 h
MAX_RES == 2

TicksPerHour == 20 * MAX_RES

Idx == 1..NUMT

Max(a, b) == IF a > b THEN a ELSE b

Min(a, b) == IF a < b THEN a ELSE b

\* 100000 * cos(u * 0.375 degrees) for u = 0..240, rounded
CosTab ==
   <<100000, 99998, 99991, 99981, 99966, 99946, 99923, 99895, 99863, 99827,
     99786, 99741, 99692, 99638, 99580, 99518, 99452, 99382, 99307, 99228,
     99144, 99057, 98965, 98869, 98769, 98664, 98556, 98443, 98325, 98204,
     98079, 97949, 97815, 97677, 97534, 97388, 97237, 97082, 96923, 96760,
     96593, 96421, 96246, 96066, 95882, 95694, 95502, 95306, 95106, 94901,
     94693, 94481, 94264, 94044, 93819, 93591, 93358, 93121, 92881, 92636,
     92388, 92136, 91879, 91619, 91355, 91086, 90814, 90538, 90259, 89975,
     89687, 89396, 89101, 88802, 88499, 88192, 87882, 87568, 87250, 86928,
     86603, 86273, 85941, 85604, 85264, 84920, 84573, 84222, 83867, 83509,
     83147, 82782, 82413, 82040, 81664, 81285, 80902, 80515, 80125, 79732,
     79335, 78935, 78532, 78125, 77715, 77301, 76884, 76464, 76041, 75614,
     75184, 74751, 74314, 73875, 73432, 72986, 72537, 72085, 71630, 71172,
     70711, 70246, 69779, 69309, 68835, 68359, 67880, 67398, 66913, 66425,
     65935, 65441, 64945, 64446, 63944, 63439, 62932, 62422, 61909, 61394,
     60876, 60356, 59832, 59307, 58779, 58248, 57715, 57179, 56641, 56100,
     55557, 55012, 54464, 53914, 53361, 52807, 52250, 51691, 51129, 50566,
     50000, 49432, 48862, 48290, 47716, 47140, 46561, 45981, 45399, 44815,
     44229, 43641, 43051, 42459, 41866, 41271, 40674, 40075, 39474, 38872,
     38268, 37663, 37056, 36447, 35837, 35225, 34612, 33997, 33381, 32763,
     32144, 31523, 30902, 30279, 29654, 29028, 28402, 27773, 27144, 26514,
     25882, 25249, 24615, 23980, 23345, 22708, 22070, 21431, 20791, 20151,
     19509, 18867, 18224, 17580, 16935, 16290, 15643, 14997, 14349, 13701,
     13053, 12403, 11754, 11104, 10453, 9802, 9150, 8498, 7846, 7193,
     6540, 5887, 5234, 4580, 3926, 3272, 2618, 1963, 1309, 654,
     0>>

\* One unit of height (1.0) in units of 1e-5, the scale of CosTab
One == 1000 * 100

\* A quarter of the circle, in angle units: 6 h at 15 degrees per hour
Quarter == 6 * TicksPerHour

\* Body(v): names a value that is used more than once
With(v, Body(_)) == Body(v)

\* np.cos of an angle given in units of 0.375 degrees
Cos(a) ==
    LET m == a % (4 * Quarter)
        u == CASE m <= Quarter -> m
               [] Quarter < m /\ m <= 2 * Quarter -> 2 * Quarter - m
               [] 2 * Quarter < m /\ m <= 3 * Quarter -> m - 2 * Quarter
               [] 3 * Quarter < m -> 4 * Quarter - m
    IN  (IF m <= Quarter \/ m > 3 * Quarter THEN 1 ELSE -1) * CosTab[u + 1]

\* The entries lo..hi of a vector that are above zero, as a bag that holds
\* entry i as many times as its value
Above(f, lo, hi) == [i \in {j \in lo..hi : f[j] > 0} |-> f[i]]

\* The same for the entries below zero and the values negated
Below(f, lo, hi) == [i \in {j \in lo..hi : f[j] < 0} |-> -f[i]]

\* np.sum over the entries lo..hi of a vector
SumRange(f, lo, hi) ==
    BagCardinality(Above(f, lo, hi)) - BagCardinality(Below(f, lo, hi))

---------------------------------------------------------------------------
(* The three data files.  A file is described by its layout; the fields of *)
(* a line are functions of the line's place.                               *)

\* Node factor (thousandths) tabulated for year y, constituent i
Xode03(y, i) == 900 + ((7 * i + 13 * y) % 200)

\* Phase lead (tenths of a degree) tabulated for year y, constituent i
Vpu03(y, i) == 15 * ((3 * i + 11 * y) % 240)

\* Speed of constituent i, in units of 15 degrees per hour; the two
\* seasonal constituents (15 and 17, one-based) are slow
Ang07(i) == IF i \in {15, 17} THEN 0 ELSE 1 + (i % 4)

\* Amplitude (thousandths) of constituent i at station s
Amp07(s, i) ==
    IF i = 1 THEN 400 + 300 * s
    ELSE IF i = 2 THEN 900
    ELSE IF i \in {15, 17} THEN 40 * s + i
    ELSE IF i \in {14, 16, 18} THEN 5 * (s - 1)
    ELSE IF i % 6 = 0 THEN 10 * ((i + s) % 7)
    ELSE 0

\* Epoch (tenths of a degree) of constituent i at station s
Epoc07(s, i) == 15 * ((5 * i + 17 * s) % 240)

\* Mean lower low water (thousandths) of station s
Mllw07(s) == 250 * (s - 1)

\* The year tag parsed from line n of the yearly file f
Ft03Tag(f, n) ==
    LET y == f.first + ((n - 1) \div 5)
    IN  IF n = f.badline THEN y + 1 ELSE y

\* The year whose values line n of the yearly file f holds
Ft03Year(f, n) == f.first + ((n - 1) \div 5)

\* The station tag parsed from line n of the station file f
Ft07Tag(f, n) ==
    LET s == ((n - 7) \div 8) + 1
    IN  IF s = f.badsta THEN s + 100 ELSE s

\* The station whose block holds line n of the station file f
Ft07Sta(f, n) == ((n - 7) \div 8) + 1

---------------------------------------------------------------------------
(* TideConstitType and the readers *)

\* np.empty((NUMT,)): storage that is not initialised
Empty(g) == [i \in Idx |-> g]

\* TideConstitType(), its arrays holding whatever the storage held
TideConstitType(g) ==
    [mllw |-> 0, nsta |-> -1, year |-> -1,
     xode |-> Empty(g), vpu |-> Empty(g), ang |-> Empty(g),
     amp |-> Empty(g), epoc |-> Empty(g)]


\* The vector a with its entries beg..end assigned: entry i becomes New(i)
Assign(a, beg, end, New(_)) ==
    SubSeq(a, 1, beg - 1) \o [k \in 1..(end - beg + 1) |-> New(beg + k - 1)]
        \o SubSeq(a, end + 1, NUMT)

\* Parses line n of f into entries beg..end of xode and vpu
read_format_ft03(f, n, beg, end, xode, vpu) ==
    [iyr  |-> Ft03Tag(f, n),
     xode |-> Assign(xode, beg, end, LAMBDA i : Xode03(Ft03Year(f, n), i)),
     vpu  |-> Assign(vpu, beg, end, LAMBDA i : Vpu03(Ft03Year(f, n), i))]

\* The sub-ranges filled by the second to fifth line of a block
Ft03Ranges == <<(<<9, 16>>), (<<17, 24>>), (<<25, 32>>), (<<33, NUMT>>)>>

\* What read_ft03 hands back: whether it returned, the error it raised, and
\* the arrays as written in place
Ft03Result(ok, err, xode, vpu) ==
    [ok |-> ok, err |-> err, xode |-> xode, vpu |-> vpu]

RECURSIVE read_ft03_rest(_, _, _, _, _)
\* The loop over the last four lines of a block: line n fills range k
read_ft03_rest(f, n, k, xode, vpu) ==
    IF k > Len(Ft03Ranges) THEN Ft03Result(TRUE, "", xode, vpu)
    ELSE IF n > f.nlines
    THEN Ft03Result(FALSE, "Encountered unexpected EOF!", xode, vpu)
    ELSE With(read_format_ft03(f, n, Ft03Ranges[k][1], Ft03Ranges[k][2],
                               xode, vpu),
              LAMBDA r : read_ft03_rest(f, n + 1, k + 1, r.xode, r.vpu))

\* Ft03Line that skips five lines for every year after the first
Ft03Line_SkipBlocks(iyear, iyr1) ==
    IF iyear # iyr1 THEN 1 + (iyear - iyr1) * 5 + 1 ELSE 1

\* The line the block of iyear starts at, the first line's tag being iyr1
Ft03Line(iyear, iyr1) ==
    IF iyear # iyr1 THEN 1 + Max(0, (iyear - iyr1) * 5 - 1) + 1 ELSE 1

\* Reads the block of iyear from the yearly file into xode and vpu, which
\* are written in place: a raise leaves what was written so far
read_ft03(f, iyear, xode, vpu) ==
    IF f.nlines = 0 THEN Ft03Result(FALSE, "IndexError", xode, vpu)
    ELSE IF iyear < Ft03Tag(f, 1)
    THEN Ft03Result(FALSE, "Invalid year from ft03", xode, vpu)
    ELSE With(Ft03Line(iyear, Ft03Tag(f, 1)), LAMBDA pos :
         IF pos > f.nlines
         THEN Ft03Result(FALSE, "invalid literal for int()", xode, vpu)
         ELSE With(read_format_ft03(f, pos, 1, 8, xode, vpu), LAMBDA r :
              IF iyear # r.iyr
              THEN Ft03Result(FALSE, "Encountered unexpected year entry!",
                              r.xode, r.vpu)
              ELSE read_ft03_rest(f, pos + 1, 1, r.xode, r.vpu)))

\* Parses a line of speeds into entries beg..end of ang
read_ang_ft07(beg, end, ang) == Assign(ang, beg, end, Ang07)

\* Parses line n of f into entries beg..end of amp and epoc
read_amp_epoc_ft07(f, n, beg, end, amp, epoc) ==
    [amp  |-> Assign(amp, beg, end, LAMBDA i : Amp07(Ft07Sta(f, n), i)),
     epoc |-> Assign(epoc, beg, end, LAMBDA i : Epoc07(Ft07Sta(f, n), i))]

\* No station tag was read
NoTag == -1000

\* read_tuples: the sub-ranges filled by the six lines of station constants
Ft07Ranges ==
    <<(<<1, 7>>), (<<8, 14>>), (<<15, 21>>), (<<22, 28>>), (<<29, 35>>),
      (<<36, 37>>)>>

RECURSIVE read_ft07_ang(_, _, _)
\* for i in range(1, 7): line i fills the entries j1..j2 of ang
read_ft07_ang(f, i, ang) ==
    IF i >= 7 THEN [ok |-> TRUE, ang |-> ang]
    ELSE IF i > f.nlines THEN [ok |-> FALSE, ang |-> ang]
    ELSE read_ft07_ang(f, i + 1,
             read_ang_ft07(1 + (i - 1) * 7, Min(NUMT, 1 + (i - 1) * 7 + 6),
                           ang))

RECURSIVE read_ft07_rest(_, _, _, _, _)
\* The loop over the six lines of station constants: line n fills range k
read_ft07_rest(f, n, k, amp, epoc) ==
    IF k > Len(Ft07Ranges) THEN [ok |-> TRUE, amp |-> amp, epoc |-> epoc]
    ELSE IF n > f.nlines THEN [ok |-> FALSE, amp |-> amp, epoc |-> epoc]
    ELSE With(read_amp_epoc_ft07(f, n, Ft07Ranges[k][1], Ft07Ranges[k][2],
                                 amp, epoc),
              LAMBDA r : read_ft07_rest(f, n + 1, k + 1, r.amp, r.epoc))

\* What read_ft07 hands back: the arrays as written in place, mllw (on
\* success), and the station tag it read (NoTag if it read none)
Ft07Result(ok, err, mllw, ang, amp, epoc, tag) ==
    [ok |-> ok, err |-> err, mllw |-> mllw, ang |-> ang, amp |-> amp,
     epoc |-> epoc, tag |-> tag]

\* The line the tag of station nsta is read from: the six lines of speeds
\* and eight lines for each station before it are skipped
Ft07Line(nsta) == 6 + Max(0, 8 * (nsta - 1)) + 1

\* The record of station nsta from its line pos on, after the tag; ang is
\* as the loop over the speeds left it
read_ft07_record(f, pos, ang, amp, epoc) ==
    IF pos + 1 > f.nlines
    THEN Ft07Result(FALSE, "Encountered unexpected EOF!", 0, ang, amp, epoc,
                    Ft07Tag(f, pos))
    ELSE With(read_ft07_rest(f, pos + 2, 1, amp, epoc), LAMBDA r :
         IF ~r.ok
         THEN Ft07Result(FALSE, "Encountered unexpected EOF!", 0, ang, r.amp,
                         r.epoc, Ft07Tag(f, pos))
         ELSE Ft07Result(TRUE, "", Mllw07(Ft07Sta(f, pos + 1)), ang, r.amp,
                         r.epoc, Ft07Tag(f, pos)))

\* read_ft07 without the comparison of the station tag
read_ft07_AnyTag(f, nsta, ang, amp, epoc) ==
    With(read_ft07_ang(f, 1, ang), LAMBDA a :
    With(Ft07Line(nsta), LAMBDA pos :
    IF ~a.ok \/ pos > f.nlines
    THEN Ft07Result(FALSE, "Encountered unexpected EOF!", 0, a.ang, amp, epoc,
                    NoTag)
    ELSE read_ft07_record(f, pos, a.ang, amp, epoc)))

\* Reads the speeds and the record of station nsta from the station file
read_ft07(f, nsta, ang, amp, epoc) ==
    With(read_ft07_ang(f, 1, ang), LAMBDA a :
    With(Ft07Line(nsta), LAMBDA pos :
    IF ~a.ok \/ pos > f.nlines
    THEN Ft07Result(FALSE, "Encountered unexpected EOF!", 0, a.ang, amp, epoc,
                    NoTag)
    ELSE IF nsta # Ft07Tag(f, pos)
    THEN Ft07Result(FALSE, "Encountered unexpected station ID!", 0, a.ang,
                    amp, epoc, Ft07Tag(f, pos))
    ELSE read_ft07_record(f, pos, a.ang, amp, epoc)))

\* What LoadConstit leaves behind: the cache, whether it returned, the error
\* it raised, the files it opened and the station tag read_ft07 read
LoadResult(c, ok, err, o03, o07, tag) ==
    [tc |-> c, ok |-> ok, err |-> err, opened03 |-> o03, opened07 |-> o07,
     tag |-> tag]

\* if tc.nsta != nsta: tc.nsta = nsta; tc.mllw = read_ft07(...).  o03 tells
\* whether the yearly file was opened before.
LoadStation(c, f07, nsta, o03) ==
    IF c.nsta = nsta THEN LoadResult(c, TRUE, "", o03, FALSE, NoTag)
    ELSE With(read_ft07(f07, nsta, c.ang, c.amp, c.epoc), LAMBDA r7 :
         LoadResult([c EXCEPT !.nsta = nsta, !.ang = r7.ang, !.amp = r7.amp,
                              !.epoc = r7.epoc,
                              !.mllw = IF r7.ok THEN r7.mllw ELSE @],
                    r7.ok, r7.err, o03, TRUE, r7.tag))

\* LoadConstit reading the yearly file whatever year is cached
LoadConstit_NoYearKey(c, f03, f07, year, nsta) ==
    With(read_ft03(f03, year, c.xode, c.vpu), LAMBDA r3 :
    With([c EXCEPT !.year = year, !.xode = r3.xode, !.vpu = r3.vpu],
         LAMBDA c1 :
         IF ~r3.ok THEN LoadResult(c1, FALSE, r3.err, TRUE, FALSE, NoTag)
         ELSE LoadStation(c1, f07, nsta, TRUE)))

\* LoadConstit handing tc.ang to read_ft03 in the place of tc.vpu
LoadConstit_WrongArray(c, f03, f07, year, nsta) ==
    IF c.year = year THEN LoadStation(c, f07, nsta, FALSE)
    ELSE
    With(read_ft03(f03, year, c.xode, c.ang), LAMBDA r3 :
    With([c EXCEPT !.year = year, !.xode = r3.xode, !.ang = r3.vpu],
         LAMBDA c1 :
         IF ~r3.ok THEN LoadResult(c1, FALSE, r3.err, TRUE, FALSE, NoTag)
         ELSE LoadStation(c1, f07, nsta, TRUE)))

\* LoadConstit(tc, ft03_path, ft07_path, year, nsta)
LoadConstit(c, f03, f07, year, nsta) ==
    IF c.year = year THEN LoadStation(c, f07, nsta, FALSE)
    ELSE
    With(read_ft03(f03, year, c.xode, c.vpu), LAMBDA r3 :
    With([c EXCEPT !.year = year, !.xode = r3.xode, !.vpu = r3.vpu],
         LAMBDA c1 :
         IF ~r3.ok THEN LoadResult(c1, FALSE, r3.err, TRUE, FALSE, NoTag)
         ELSE LoadStation(c1, f07, nsta, TRUE)))

---------------------------------------------------------------------------
(* Harmonic synthesis *)

\* What a synthesis function hands back: a value, or the error it raised
Value(z) == [ok |-> TRUE, err |-> "", z |-> z]

Raise(e) == [ok |-> FALSE, err |-> e, z |-> 0]

\* tc.nsta < 1 or tc.year == -1
Unloaded(c) == c.nsta < 1 \/ c.year = -1

\* tc.ang * t + tc.vpu - tc.epoc for constituent i, in angle units
Phase(c, i, t) == c.ang[i] * t + (((c.vpu[i] - c.epoc[i]) * 4) \div 15)

\* eqn = tc.xode * tc.amp * np.cos(PI/180 * (tc.ang * t + tc.vpu - tc.epoc))
\* (a term whose coefficient is zero is zero whatever its phase)
Eqn(c, t) ==
    SubSeq([i \in Idx |->
               LET a == (c.xode[i] * c.amp[i]) \div 1000
               IN  IF a = 0 THEN 0 ELSE (a * Cos(Phase(c, i, t))) \div 1000],
           1, NUMT)

\* np.sum(eqn), or np.sum(eqn[:14]) + eqn[15] + np.sum(eqn[17:])
SumTerms(eqn, f_seasonal) ==
    IF f_seasonal THEN SumRange(eqn, 1, NUMT)
    ELSE SumRange(eqn, 1, 14) + eqn[16] + SumRange(eqn, 18, NUMT)

\* tide_t leaving out the entries 14 and 16 counted from one
tide_t_SkipFromOne(c, t, z0, f_seasonal) ==
    IF Unloaded(c) THEN Raise("Invalid tide constituent info input!")
    ELSE With(Eqn(c, t), LAMBDA eqn :
         IF f_seasonal
         THEN Value(z0 + SumRange(eqn, 1, NUMT))
         ELSE Value(z0 + SumRange(eqn, 1, 13) + eqn[15]
                       + SumRange(eqn, 17, NUMT)))

\* tide_t(tc, t, z0, f_seasonal)
tide_t(c, t, z0, f_seasonal) ==
    IF Unloaded(c) THEN Raise("Invalid tide constituent info input!")
    ELSE Value(z0 + SumTerms(Eqn(c, t), f_seasonal))

\* What tide_hours and secTide_hours hand back
HoursResult(ok, err, zhr) == [ok |-> ok, err |-> err, zhr |-> zhr]

\* tide_hours with ts = initHour + (np.arange(numHours) + 1) * delt
tide_hours_LateStart(c, initHour, z0, f_seasonal, numHours, delt) ==
    IF Unloaded(c)
    THEN HoursResult(FALSE, "Invalid tide constituent info input!", <<>>)
    ELSE With([k \in 1..numHours |-> initHour + k * delt], LAMBDA ts :
         HoursResult(TRUE, "",
             [k \in 1..numHours |->
                 z0 + SumTerms(Eqn(c, ts[k]), f_seasonal)]))

\* tide_hours(tc, initHour, z0, f_seasonal, numHours, delt): the vector
\* form; row k of the broadcast table eqn is taken at ts[k]
tide_hours(c, initHour, z0, f_seasonal, numHours, delt) ==
    IF Unloaded(c)
    THEN HoursResult(FALSE, "Invalid tide constituent info input!", <<>>)
    ELSE With([k \in 1..numHours |-> initHour + (k - 1) * delt], LAMBDA ts :
         HoursResult(TRUE, "",
             [k \in 1..numHours |->
                 z0 + SumTerms(Eqn(c, ts[k]), f_seasonal)]))

---------------------------------------------------------------------------
(* Extrema search *)

\* Every curve of the model repeats after 24 h; a loop of tide_MaxMin that
\* has not ended after that many passes never ends
WalkLimit == (24 * TicksPerHour) \div MAX_RES

\* The variables of a loop of tide_MaxMin: t1, z1, z2, and go, whether the
\* loop goes on
WalkVars(t1, z1, z2) == [t1 |-> t1, z1 |-> z1, z2 |-> z2, go |-> TRUE]

\* The first loop left out: the walks start from t1 = t - MAX_RES whatever
\* z1 is
EqualStep_Skipped(c, z0, f_seasonal, z, w) == [w EXCEPT !.go = FALSE]

\* One test of while z1 == z, and one pass through its body
\*     t1 -= MAX_RES; z1 = tide_t(tc, t1, z0, f_seasonal)
EqualStep(c, z0, f_seasonal, z, w) ==
    IF w.z1 = z
    THEN WalkVars(w.t1 - MAX_RES,
                  tide_t(c, w.t1 - MAX_RES, z0, f_seasonal).z, w.z2)
    ELSE [w EXCEPT !.go = FALSE]

RECURSIVE StepLeftWhileEqual(_, _, _, _, _, _)
\* while z1 == z: ...  run for at most n tests, the first half of them and
\* then the rest.  Hands back the loop's variables; go is still TRUE if the
\* loop has not ended.
StepLeftWhileEqual(c, z0, f_seasonal, z, w, n) ==
    CASE ~w.go -> w
      [] w.go /\ n <= 1 -> EqualStep(c, z0, f_seasonal, z, w)
      [] w.go /\ n > 1 ->
            StepLeftWhileEqual(c, z0, f_seasonal, z,
                StepLeftWhileEqual(c, z0, f_seasonal, z, w, n \div 2),
                n - n \div 2)

\* WalkStep moving t1 by four times MAX_RES
WalkStep_Coarse(c, z0, f_seasonal, falling, dir, w) ==
    IF (falling /\ w.z1 < w.z2) \/ (~falling /\ w.z1 > w.z2)
    THEN WalkVars(w.t1 + dir * 4 * MAX_RES,
                  tide_t(c, w.t1 + dir * 4 * MAX_RES, z0, f_seasonal).z, w.z1)
    ELSE [w EXCEPT !.go = FALSE]

\* One test of a walking loop, while z1 < z2 (falling) or while z1 > z2
\* (rising), and one pass through its body
\*     z2 = z1; t1 += dir * MAX_RES; z1 = tide_t(tc, t1, z0, f_seasonal)
WalkStep(c, z0, f_seasonal, falling, dir, w) ==
    IF (falling /\ w.z1 < w.z2) \/ (~falling /\ w.z1 > w.z2)
    THEN WalkVars(w.t1 + dir * MAX_RES,
                  tide_t(c, w.t1 + dir * MAX_RES, z0, f_seasonal).z, w.z1)
    ELSE [w EXCEPT !.go = FALSE]

RECURSIVE WalkFrom(_, _, _, _, _, _, _)
\* A walking loop run for at most n tests, the first half of them and then
\* the rest
WalkFrom(c, z0, f_seasonal, falling, dir, w, n) ==
    CASE ~w.go -> w
      [] w.go /\ n <= 1 -> WalkStep(c, z0, f_seasonal, falling, dir, w)
      [] w.go /\ n > 1 ->
            WalkFrom(c, z0, f_seasonal, falling, dir,
                WalkFrom(c, z0, f_seasonal, falling, dir, w, n \div 2),
                n - n \div 2)

\* A walking loop of tide_MaxMin, from t1, z1 and z2 to its end
Walk(c, z0, f_seasonal, falling, dir, t1, z1, z2) ==
    WalkFrom(c, z0, f_seasonal, falling, dir, WalkVars(t1, z1, z2),
             WalkLimit + 1)

\* What tide_MaxMin hands back
MaxMinResult(ok, err, hang, hMax, tMax, hMin, tMin) ==
    [ok |-> ok, err |-> err, hang |-> hang, hMax |-> hMax, tMax |-> tMax,
     hMin |-> hMin, tMin |-> tMin]

\* MaxMinWalks whose walk to the right is held against z, not against the
\* extremum the walk to the left ended at
MaxMinWalks_RightFromZ(c, t, z0, f_seasonal, z, e, falling) ==
    With(Walk(c, z0, f_seasonal, falling, -1, e.t1, e.z1, z), LAMBDA l :
    With(Walk(c, z0, f_seasonal, ~falling, 1, t, z, z), LAMBDA r :
         IF falling
         THEN MaxMinResult(TRUE, "", l.go \/ r.go, r.z2, r.t1 - MAX_RES,
                           l.z2, l.t1 + MAX_RES)
         ELSE MaxMinResult(TRUE, "", l.go \/ r.go, l.z2, l.t1 + MAX_RES,
                           r.z2, r.t1 - MAX_RES)))

\* The two branches of tide_MaxMin after its first loop.  With z1 < z
\* (falling to the left) the walk to the left ends at the low and the walk
\* to the right at the high; otherwise the other way round.
MaxMinWalks(c, t, z0, f_seasonal, z, e, falling) ==
    With(Walk(c, z0, f_seasonal, falling, -1, e.t1, e.z1, z), LAMBDA l :
    With(Walk(c, z0, f_seasonal, ~falling, 1, t, z, l.z2), LAMBDA r :
         IF falling
         THEN MaxMinResult(TRUE, "", l.go \/ r.go, r.z2, r.t1 - MAX_RES,
                           l.z2, l.t1 + MAX_RES)
         ELSE MaxMinResult(TRUE, "", l.go \/ r.go, l.z2, l.t1 + MAX_RES,
                           r.z2, r.t1 - MAX_RES)))

\* tide_MaxMin(tc, t, z0, f_seasonal)
tide_MaxMin(c, t, z0, f_seasonal) ==
    IF Unloaded(c)
    THEN MaxMinResult(FALSE, "Invalid tide constituent info input!", FALSE,
                      0, 0, 0, 0)
    ELSE
    With(tide_t(c, t, z0, f_seasonal).z, LAMBDA z :
    With(StepLeftWhileEqual(c, z0, f_seasonal, z,
             WalkVars(t - MAX_RES,
                      tide_t(c, t - MAX_RES, z0, f_seasonal).z, z),
             WalkLimit + 1),
         LAMBDA e :
         IF e.go THEN MaxMinResult(FALSE, "", TRUE, 0, 0, 0, 0)
         ELSE MaxMinWalks(c, t, z0, f_seasonal, z, e, e.z1 < z)))

---------------------------------------------------------------------------
(* Secondary stations *)

\* SecondaryType(), its embedded TideConstitType not initialised
SecondaryType(g) ==
    [secSta |-> -1, maxTime |-> 0, minTime |-> 0, maxAdj |-> 0, minAdj |-> 0,
     maxInc |-> 0, minInc |-> 0, tc |-> TideConstitType(g),
     name1 |-> "", name2 |-> "", lat |-> 0, lon |-> 0, bsn |-> "",
     i |-> 0, j |-> 0]

\* A time field "H:MM" or "-H:MM" of the adjustment file, as its characters
\* group: a sign, the digits before the colon, the digits after it
TimeText(neg, hr, mn, colon) ==
    [neg |-> neg, hr |-> hr, mn |-> mn, colon |-> colon]

\* A line of the adjustment file: whether it starts with '#', how many '|'
\* it holds, and the text between them.  Scale factors are in hundredths.
Ft08Line(comment, pipes, id, ref, maxT, minT, maxAdj, minAdj) ==
    [comment |-> comment, pipes |-> pipes, id |-> id, name1 |-> "name",
     name2 |-> "alias", bsn |-> "bsn", i |-> 10 + id, j |-> 20 + id,
     lat |-> 30 + id, lon |-> -70 - id, ref |-> ref, maxT |-> maxT,
     minT |-> minT, maxAdj |-> maxAdj, minAdj |-> minAdj]

\* hr = int(text before ':'); minm = int(text after ':'); hr * 60 + minm
TimeMinutes(x) == (IF x.neg THEN -x.hr ELSE x.hr) * 60 + x.mn

RECURSIVE FindStation(_, _, _)
\* The scan of the adjustment file: the first line from n on that is no
\* comment, holds a '|' and starts with secSta; 0 if there is none
FindStation(f, n, secSta) ==
    IF n > Len(f) THEN 0
    ELSE IF f[n].comment \/ f[n].pipes = 0 \/ f[n].id # secSta
    THEN FindStation(f, n + 1, secSta)
    ELSE n

\* The fields of st assigned from line x before its parse ends: field k is
\* assigned when the k-th '|' after the id was found
ParseLine(s, x) ==
    LET p  == x.pipes - 1
        t1 == p >= 9 /\ x.maxT.colon
        t2 == t1 /\ p >= 10 /\ x.minT.colon
    IN  [s EXCEPT
            !.name1   = IF p >= 1 THEN x.name1 ELSE @,
            !.name2   = IF p >= 2 THEN x.name2 ELSE @,
            !.bsn     = IF p >= 3 THEN x.bsn ELSE @,
            !.i       = IF p >= 4 THEN x.i ELSE @,
            !.j       = IF p >= 5 THEN x.j ELSE @,
            !.lat     = IF p >= 6 THEN x.lat ELSE @,
            !.lon     = IF p >= 7 THEN x.lon ELSE @,
            !.maxTime = IF t1 THEN TimeMinutes(x.maxT) ELSE @,
            !.minTime = IF t2 THEN TimeMinutes(x.minT) ELSE @,
            !.maxAdj  = IF t2 /\ p >= 11 THEN x.maxAdj ELSE @,
            !.minAdj  = IF t2 /\ p = 11 THEN x.minAdj ELSE @,
            !.maxInc  = IF t2 /\ p = 11 THEN 0 ELSE @,
            !.minInc  = IF t2 /\ p = 11 THEN 0 ELSE @]

\* The error the parse of line x ends with, "" if it ends with none
ParseError(x) ==
    LET p == x.pipes - 1
    IN  IF p < 9 \/ ~x.maxT.colon THEN "Invalid line formatting for station!"
        ELSE IF p < 10 \/ ~x.minT.colon
        THEN "Invalid line formatting for station!"
        ELSE IF p < 11 THEN "Invalid line formatting for station!"
        ELSE IF p > 11 THEN "could not convert string to float"
        ELSE ""

\* What LoadSecond leaves behind: st, whether it returned, the error it
\* raised, whether it opened the adjustment file, and the nested LoadConstit
SecondResult(s, ok, err, o08, called, r) ==
    [st |-> s, ok |-> ok, err |-> err, opened08 |-> o08, called |-> called,
     opened03 |-> called /\ r.opened03, opened07 |-> called /\ r.opened07,
     tag |-> IF called THEN r.tag ELSE NoTag]

\* The rest of LoadSecond once line n of the adjustment file starts with
\* secSta: st.secSta is set, the line is parsed into s1, and the reference
\* station's constituents are loaded
LoadSecondLine(s1, f03, f07, year, x) ==
    IF ParseError(x) # ""
    THEN SecondResult(s1, FALSE, ParseError(x), TRUE, FALSE, <<>>)
    ELSE With(LoadConstit(s1.tc, f03, f07, year, x.ref), LAMBDA r :
         SecondResult([s1 EXCEPT !.tc = r.tc], r.ok, r.err, TRUE, TRUE, r))

\* LoadSecond(st, ft03_path, ft07_path, ft08_path, year, secSta)
LoadSecond(s, f03, f07, f08, year, secSta) ==
    With(IF s.secSta = secSta THEN 0 ELSE FindStation(f08, 1, secSta),
         LAMBDA n :
         IF s.secSta # secSta /\ n = 0
         THEN SecondResult(s, FALSE,
                  "Couldn't find the station in FT08 file!", TRUE, FALSE, <<>>)
         ELSE IF s.secSta # secSta
         THEN LoadSecondLine(ParseLine([s EXCEPT !.secSta = secSta], f08[n]),
                             f03, f07, year, f08[n])
         ELSE With(LoadConstit(s.tc, f03, f07, year, s.tc.nsta), LAMBDA r :
              SecondResult([s EXCEPT !.tc = r.tc], r.ok, r.err, FALSE, TRUE,
                           r)))

\* Make sure user initialized st and that LoadSecond initialized st->tc
SecGuard(s) ==
    IF s.secSta < 1 THEN "secSta not initialized correctly!"
    ELSE IF Unloaded(s.tc) THEN "Invalid tide constituent info input!"
    ELSE ""

\* refT = locT - ((st.maxTime + st.minTime) / 2.) / 60., in ticks
FirstGuess(s, locT) ==
    locT - ((s.maxTime + s.minTime) * TicksPerHour) \div 120

\* A reference time and the reference tide at it
RefPoint(s, refT, z0, f_seasonal) ==
    [t |-> refT, z |-> tide_t(s.tc, refT, z0, f_seasonal).z]

\* TimeAdj = (minTime * (hMax - refZ) + maxTime * (refZ - hMin))
\*           / (hMax - hMin) / 60.; refT = locT - TimeAdj, in ticks
RefTime(s, locT, hMax, hMin, refZ) ==
    locT - ((s.minTime * (hMax - refZ) + s.maxTime * (refZ - hMin))
            * (TicksPerHour \div 20))
           \div ((hMax - hMin) * (60 \div 20))

RECURSIVE Refine(_, _, _, _, _, _, _, _)
\* for i in range(5): refT = locT - TimeAdj; refZ = tide_t(st.tc, refT, ...)
\* with hMax and hMin as handed in.  n counts the iterations left.
Refine(s, locT, z0, f_seasonal, hMax, hMin, n, ref) ==
    IF n = 0 THEN ref
    ELSE Refine(s, locT, z0, f_seasonal, hMax, hMin, n - 1,
                RefPoint(s, RefTime(s, locT, hMax, hMin, ref.z), z0,
                         f_seasonal))

\* The number of iterations of the refinement loop: range(5)
RefineCount == 5

\* Adjust dividing the weight by hMax instead of hMax - hMin
Adjust_OverMax(s, refZ, hMax, hMin) ==
    LET d    == hMax
        w    == s.minAdj * (hMax - refZ) + s.maxAdj * (refZ - hMin)
        mult == (w \div d) * 10 + ((w % d) * 10) \div d
        locZ == refZ + s.tc.mllw * (One \div 1000)
    IN  (locZ * mult) \div 1000
        + (s.maxInc * (hMax - refZ) + s.minInc * (refZ - hMin)) \div d

\* Steps 4 to 6 of secTide_t: adjust to mllw, multiply, add
Adjust(s, refZ, hMax, hMin) ==
    LET d    == hMax - hMin
        w    == s.minAdj * (hMax - refZ) + s.maxAdj * (refZ - hMin)
        \* w / d in thousandths, the factors being hundredths
        mult == (w \div d) * 10 + ((w % d) * 10) \div d
        locZ == refZ + s.tc.mllw * (One \div 1000)
    IN  (locZ * mult) \div 1000
        + (s.maxInc * (hMax - refZ) + s.minInc * (refZ - hMin)) \div d

\* Sample with one iteration fewer
Sample_FourPasses(s, locT, z0, f_seasonal, guess, b) ==
    With(Refine(s, locT, z0, f_seasonal, b.hMax, b.hMin, RefineCount - 1,
                RefPoint(s, guess, z0, f_seasonal)), LAMBDA ref :
         [t |-> ref.t, z |-> Adjust(s, ref.z, b.hMax, b.hMin)])

\* Steps 3 to 6 for one sample: the refinement from the first guess guess
\* within the bracket b, and the adjusted height
Sample(s, locT, z0, f_seasonal, guess, b) ==
    With(Refine(s, locT, z0, f_seasonal, b.hMax, b.hMin, RefineCount,
                RefPoint(s, guess, z0, f_seasonal)), LAMBDA ref :
         [t |-> ref.t, z |-> Adjust(s, ref.z, b.hMax, b.hMin)])

\* secTide_t(st, locT, z0, f_seasonal)
secTide_t(s, locT, z0, f_seasonal) ==
    IF SecGuard(s) # "" THEN Raise(SecGuard(s))
    ELSE
    With(tide_MaxMin(s.tc, FirstGuess(s, locT), z0, f_seasonal), LAMBDA b :
         IF b.hang THEN [ok |-> FALSE, err |-> "hang", z |-> 0]
         ELSE IF b.hMax = b.hMin THEN [ok |-> TRUE, err |-> "nan", z |-> 0]
         ELSE Value(Sample(s, locT, z0, f_seasonal, FirstGuess(s, locT),
                           b).z))

\* The bracket for the next sample: if (refT > tMax) and (refT > tMin) the
\* extrema are searched again, otherwise the bracket b is kept
NextBracket(s, z0, f_seasonal, guess, b) ==
    IF guess > b.tMax /\ guess > b.tMin
    THEN tide_MaxMin(s.tc, guess, z0, f_seasonal)
    ELSE b

\* The variables of the loop of secTide_hours: locT, refT, the bracket b,
\* the samples so far, and whether a search for the bracket hung
SeriesVars(locT, refT, b, zhr) ==
    [locT |-> locT, refT |-> refT, b |-> b, zhr |-> zhr, hang |-> FALSE]

\* One pass of for i in range(1, numHours): the sample from the reference
\* time and the bracket the sample before it ended with
secTide_hours_pass(s, z0, f_seasonal, delt, w) ==
    With(NextBracket(s, z0, f_seasonal, w.refT + delt, w.b), LAMBDA b1 :
         IF b1.hang THEN [w EXCEPT !.hang = TRUE]
         ELSE With(Sample(s, w.locT, z0, f_seasonal, w.refT + delt, b1),
                   LAMBDA p :
              SeriesVars(w.locT + delt, p.t, b1, Append(w.zhr, p.z))))

RECURSIVE secTide_hours_loop(_, _, _, _, _, _)
\* n passes of the loop, the first half of them and then the rest
secTide_hours_loop(s, z0, f_seasonal, delt, w, n) ==
    CASE w.hang \/ n <= 0 -> w
      [] ~w.hang /\ n = 1 -> secTide_hours_pass(s, z0, f_seasonal, delt, w)
      [] ~w.hang /\ n > 1 ->
            secTide_hours_loop(s, z0, f_seasonal, delt,
                secTide_hours_loop(s, z0, f_seasonal, delt, w, n \div 2),
                n - n \div 2)

\* The first sample of secTide_hours, its loop, and what it hands back
secTide_hours_first(s, initHour, z0, f_seasonal, numHours, delt, b) ==
    With(Sample(s, initHour, z0, f_seasonal, FirstGuess(s, initHour), b),
         LAMBDA p :
    With(secTide_hours_loop(s, z0, f_seasonal, delt,
             SeriesVars(initHour + delt, p.t, b, <<p.z>>), numHours - 1),
         LAMBDA w :
         HoursResult(~w.hang, IF w.hang THEN "hang" ELSE "", w.zhr)))

\* secTide_hours(st, initHour, z0, f_seasonal, numHours, delt)
secTide_hours(s, initHour, z0, f_seasonal, numHours, delt) ==
    IF SecGuard(s) # "" THEN HoursResult(FALSE, SecGuard(s), <<>>)
    ELSE
    With(tide_MaxMin(s.tc, FirstGuess(s, initHour), z0, f_seasonal),
         LAMBDA b :
         IF b.hang THEN HoursResult(FALSE, "hang", <<>>)
         \* zhr = np.empty((0,)); zhr[0] = ...
         ELSE IF numHours = 0 THEN HoursResult(FALSE, "IndexError", <<>>)
         ELSE secTide_hours_first(s, initHour, z0, f_seasonal, numHours,
                                  delt, b))

---------------------------------------------------------------------------
(* The multi-year driver, TideC_stn.  A request is a record                *)
(*   cmd, station, date ("aware", "naive" or "NaT"), year and hour (the    *)
(*   date's year and its whole hours since January 1st), numHour,          *)
(*   initHeight, is_seasonal, is_secondary, add_mllw, delt (in ticks) and  *)
(*   g, what the storage of the new TideType holds.                        *)
(* The call is a record d: its place pc, its locals, and a log of what it  *)
(* did (the files opened, the years loaded, the last chunk computed and    *)
(* the last test of the year boundary).                                    *)

\* TideType(ft03=..., ft07=..., ft08=...)
TideType(g) == [tc |-> TideConstitType(g), st |-> SecondaryType(g)]

NoChunk == [kind |-> "none", year |-> 0, initHour |-> 0, n |-> 0]

NoWrap == [hour |-> 0, year |-> 0, wrapped |-> FALSE, hour0 |-> 0]

\* The state of a call that has not started
Idle ==
    [pc |-> "idle", req |-> <<>>, tt |-> <<>>, year |-> 0, initHour |-> 0,
     numHour |-> 0, totHour |-> 0, initHeight |-> 0, data |-> <<>>,
     err |-> "", opened |-> {}, years |-> <<>>, tag |-> NoTag,
     chunk |-> NoChunk, wrap |-> NoWrap]

\* The error the argument checks end with, "" if they pass
Validate(req) ==
    IF req.date # "aware" THEN "AssertionError"
    ELSE IF req.cmd # "hourly" THEN "NotImplementedError"
    ELSE IF req.delt # TicksPerHour
            /\ (req.delt > TicksPerHour
                \/ req.delt * req.numHour > 24 * TicksPerHour)
    THEN "If not 1, delt should be less than 1"
    ELSE IF req.station = -1 THEN "Station input must be provided!"
    ELSE IF ~(1800 <= req.year /\ req.year <= 2045)
    THEN "Date must be between year 1800 and 2045!"
    ELSE ""

\* The files a load opened
Opened(r, o08) ==
    (IF r.opened03 THEN {"ft03"} ELSE {})
    \cup (IF r.opened07 THEN {"ft07"} ELSE {})
    \cup (IF o08 THEN {"ft08"} ELSE {})

\* The call after a load r for year; o08 tells whether the adjustment file
\* was opened
AfterLoad(d, r, o08, year) ==
    [d EXCEPT !.pc = IF r.ok THEN "loaded" ELSE "raised",
              !.err = r.err,
              !.opened = @ \cup Opened(r, o08),
              !.years = Append(@, year),
              !.tag = r.tag]

\* LoadConstit or LoadSecond for year, as TideC_stn calls them
DriverLoad(d, f03, f07, f08, year) ==
    IF ~d.req.is_secondary
    THEN With(LoadConstit(d.tt.tc, f03, f07, year, d.req.station), LAMBDA r :
              AfterLoad([d EXCEPT !.tt.tc = r.tc], r, FALSE, year))
    ELSE With(LoadSecond(d.tt.st, f03, f07, f08, year, d.req.station),
              LAMBDA r :
              AfterLoad([d EXCEPT !.tt.st = r.st], r, r.opened08, year))

\* The call on entry: the arguments taken over and a new TideType
Entered(req) ==
    [Idle EXCEPT !.req = req, !.tt = TideType(req.g), !.year = req.year,
                 !.initHour = req.hour, !.numHour = req.numHour,
                 !.initHeight = req.initHeight]

\* Baseline adding mllw for a secondary station when add_mllw is not set
Baseline_Added(d) ==
    IF d.pc = "raised" THEN d
    ELSE IF ~d.req.is_secondary
    THEN [d EXCEPT !.initHeight =
             IF d.req.add_mllw THEN @ + d.tt.tc.mllw * (One \div 1000)
             ELSE @]
    ELSE [d EXCEPT !.initHeight =
             IF ~d.req.add_mllw THEN @ + d.tt.st.tc.mllw * (One \div 1000)
             ELSE @]

\* The baseline after the first load: mllw is added for a primary station
\* when add_mllw is set, and taken off for a secondary one when it is not
Baseline(d) ==
    IF d.pc = "raised" THEN d
    ELSE IF ~d.req.is_secondary
    THEN [d EXCEPT !.initHeight =
             IF d.req.add_mllw THEN @ + d.tt.tc.mllw * (One \div 1000)
             ELSE @]
    ELSE [d EXCEPT !.initHeight =
             IF ~d.req.add_mllw THEN @ - d.tt.st.tc.mllw * (One \div 1000)
             ELSE @]

\* Begin making the first load before the argument checks
Begin_LoadFirst(req, f03, f07, f08) ==
    With(DriverLoad(Entered(req), f03, f07, f08, req.year), LAMBDA d :
         IF Validate(req) # ""
         THEN [d EXCEPT !.pc = "raised", !.err = Validate(req)]
         ELSE Baseline(d))

\* The start of TideC_stn: the argument checks, the TideType, the first
\* load and the baseline
Begin(req, f03, f07, f08) ==
    IF Validate(req) # ""
    THEN [Entered(req) EXCEPT !.pc = "raised", !.err = Validate(req)]
    ELSE Baseline(DriverLoad(Entered(req), f03, f07, f08, req.year))

\* tide_hours or secTide_hours for n samples from the running hour
Compute(d, n) ==
    IF ~d.req.is_secondary
    THEN tide_hours(d.tt.tc, d.initHour * TicksPerHour, d.initHeight,
                    d.req.is_seasonal, n, d.req.delt)
    ELSE secTide_hours(d.tt.st, d.initHour * TicksPerHour, d.initHeight,
                       d.req.is_seasonal, n, d.req.delt)

\* The year the constituents in use were loaded for
LoadedYear(d) == IF d.req.is_secondary THEN d.tt.st.tc.year ELSE d.tt.tc.year

\* The call after a chunk r of n samples
AfterCompute(d, kind, n, r) ==
    [d EXCEPT !.pc = IF r.ok THEN @ ELSE IF r.err = "hang" THEN "hang"
                     ELSE "raised",
              !.err = r.err,
              !.data = IF r.ok THEN @ \o r.zhr ELSE @,
              !.chunk = [kind |-> kind, year |-> LoadedYear(d),
                         initHour |-> d.initHour, n |-> n]]

\* The call after n samples of kind kind are computed and appended
Chunk(d, kind, n) == AfterCompute(d, kind, n, Compute(d, n))

\* totHour before the loop taken as that of a common year
TotHourFirst_Common(year) == 365 * 24

\* totHour as computed before the loop
TotHourFirst(year) ==
    IF year % 4 = 0 /\ (year % 100 # 0 \/ year % 400 = 0)
    THEN 366 * 24 ELSE 365 * 24

\* totHour kept at 365 days when the loop enters a year
TotHourNext_Kept(year) == 365 * 24

\* totHour as computed when the loop enters a year
TotHourNext(year) ==
    IF year % 4 = 0 /\ (year % 100 # 0 \/ year % 400 = 0)
    THEN 366 * 24 ELSE 365 * 24

\* Make sure they do not cross the year boundary.
SinglePath(d) == d.numHour + d.initHour < 365 * 24

\* The call after its first computation of n samples: the single call
\* returns; the first chunk of the chunked path leads to the loop
AfterFirst(d, e, single, n) ==
    IF e.pc # "loaded" THEN e
    ELSE IF single THEN [e EXCEPT !.pc = "done"]
    ELSE [e EXCEPT !.pc = "loop",
                   !.initHour = @ + n,
                   !.numHour = @ - n,
                   !.totHour = TotHourFirst(d.year)]

\* Hourly with a first chunk that runs to the end of the year
Hourly_ToYearEnd(d) ==
    With(IF SinglePath(d) THEN d.numHour
         ELSE Min(d.numHour, TotHourFirst(d.year) - d.initHour), LAMBDA n :
         AfterFirst(d,
                    Chunk(d, IF SinglePath(d) THEN "single" ELSE "first", n),
                    SinglePath(d), n))

\* if cmd == 'hourly': the single call, or the first chunk of the chunked
\* path, which ends with the day, up to the loop
Hourly(d) ==
    With(IF SinglePath(d) THEN d.numHour
         ELSE Min(d.numHour, 24 - (d.initHour % 24)), LAMBDA n :
         AfterFirst(d,
                    Chunk(d, IF SinglePath(d) THEN "single" ELSE "first", n),
                    SinglePath(d), n))

\* if initHour >= totHour: the running hour and the year move into the next
\* year, whose length and constituents are taken; the test is logged
Wrap(d, f03, f07, f08) ==
    IF d.initHour >= d.totHour
    THEN With(DriverLoad([d EXCEPT !.initHour = @ - d.totHour,
                                   !.year = @ + 1,
                                   !.totHour = TotHourNext(d.year + 1),
                                   !.wrap = [hour |-> d.initHour,
                                             year |-> d.year,
                                             wrapped |-> TRUE,
                                             hour0 |-> d.initHour - d.totHour]],
                         f03, f07, f08, d.year + 1), LAMBDA l :
              IF l.pc = "raised" THEN l ELSE [l EXCEPT !.pc = "loop"])
    ELSE [d EXCEPT !.wrap = [hour |-> d.initHour, year |-> d.year,
                             wrapped |-> FALSE, hour0 |-> d.initHour]]

\* The rest of an iteration: a chunk of at most 24 samples
LaterChunk(d) ==
    IF d.pc = "raised" THEN d
    ELSE With(Chunk(d, "later", Min(d.numHour, 24)), LAMBDA e :
         IF e.pc # "loop" THEN e
         ELSE [e EXCEPT !.numHour = @ - 24, !.initHour = @ + 24])

\* One iteration of while numHour > 0
ChunkStep(d, f03, f07, f08) == LaterChunk(Wrap(d, f03, f07, f08))

\* return data
Return(d) == [d EXCEPT !.pc = "done"]

RECURSIVE RunLoop(_, _, _, _)
\* The loop of TideC_stn run to its end
RunLoop(d, f03, f07, f08) ==
    IF d.pc # "loop" THEN d
    ELSE IF d.numHour > 0 THEN RunLoop(ChunkStep(d, f03, f07, f08), f03, f07, f08)
    ELSE Return(d)

\* The call from its first computation to return or raise
Run(d, f03, f07, f08) ==
    IF d.pc # "loaded" THEN d ELSE RunLoop(Hourly(d), f03, f07, f08)

\* TideC_stn(...) from call to return or raise
TideC_stn(req, f03, f07, f08) == Run(Begin(req, f03, f07, f08), f03, f07, f08)

---------------------------------------------------------------------------
(* The files and objects the specifications start from *)

\* A yearly file from 1800 to 2045, five lines a year
GoodFt03 == [first |-> 1800, nlines |-> 5 * 246, badline |-> 0]

\* The number of stations in the station file
NumSta == 3

\* A station file with the six lines of speeds and NumSta records
GoodFt07 == [nlines |-> 6 + 8 * NumSta, badsta |-> 0]

\* An adjustment file: a comment, a line without '|', and three stations.
\* Station 1 maps station 1 to itself; station 2 shifts and scales the tide
\* of station 2; station 3 shifts highs and lows by the same time.
GoodFt08 ==
    <<[Ft08Line(TRUE, 12, 1, 1, TimeText(FALSE, 0, 0, TRUE),
                TimeText(FALSE, 0, 0, TRUE), 100, 100) EXCEPT !.comment = TRUE],
      Ft08Line(FALSE, 0, 2, 1, TimeText(FALSE, 0, 0, TRUE),
               TimeText(FALSE, 0, 0, TRUE), 100, 100),
      Ft08Line(FALSE, 12, 1, 1, TimeText(FALSE, 0, 0, TRUE),
               TimeText(FALSE, 0, 0, TRUE), 100, 100),
      Ft08Line(FALSE, 12, 2, 2, TimeText(FALSE, 1, 30, TRUE),
               TimeText(FALSE, 0, 12, TRUE), 120, 85),
      Ft08Line(FALSE, 12, 3, 2, TimeText(FALSE, 0, 45, TRUE),
               TimeText(FALSE, 0, 45, TRUE), 110, 90)>>

\* What uninitialised storage may hold
Garbage == {0, 1005}

\* The constituents of station s for year y, loaded from the good files
Loaded(y, s) == LoadConstit(TideConstitType(0), GoodFt03, GoodFt07, y, s).tc

\* The secondary station sec for year y, loaded from the good files
LoadedSecond(y, sec) ==
    LoadSecond(SecondaryType(0), GoodFt03, GoodFt07, GoodFt08, y, sec).st

\* A single cosine of amplitude 1, speed 15 degrees per hour and phase 0
SingleCosine ==
    [mllw |-> 0, nsta |-> 1, year |-> 2023,
     xode |-> [i \in Idx |-> 1000], vpu |-> [i \in Idx |-> 0],
     ang  |-> [i \in Idx |-> IF i = 1 THEN 1 ELSE Ang07(i)],
     amp  |-> [i \in Idx |-> IF i = 1 THEN 1000 ELSE 0],
     epoc |-> [i \in Idx |-> 0]]

\* The identity transform on the single cosine
SingleCosineSecond ==
    [SecondaryType(0) EXCEPT !.secSta = 1, !.maxAdj = 100, !.minAdj = 100,
                             !.tc = SingleCosine]

\* A loaded set whose amplitudes are all zero: its curve is constant
FlatCurve == [SingleCosine EXCEPT !.amp = [i \in Idx |-> 0]]

---------------------------------------------------------------------------
(* SpecSynth: the synthesis functions applied to bounded inputs *)

\* Start times: every hour and a half from 0 to MaxStart times that, and
\* the tick after each, which lies between two points of the search grid
\* that has an extremum of the single cosine on it
MaxStart == 16

StartTimes ==
    {k * (TicksPerHour + TicksPerHour \div 2) + j : k \in 0..MaxStart,
                                                    j \in {0, 1}}

\* The longest series asked for
MaxCount == 3

\* Baselines, in units of 1e-5
Baselines == {0, 12345}

\* Steps of a series: an hour, half an hour
Delts == {TicksPerHour, TicksPerHour \div 2}

SynthCases ==
    {[tc |-> Loaded(2023, 2), st |-> LoadedSecond(2023, 2)],
     [tc |-> Loaded(2024, 1), st |-> LoadedSecond(2024, 1)],
     [tc |-> SingleCosine, st |-> SingleCosineSecond],
     [tc |-> FlatCurve, st |-> [SingleCosineSecond EXCEPT !.tc = FlatCurve]],
     [tc |-> TideConstitType(0), st |-> SecondaryType(0)]}

NoCall == [op |-> "none", ok |-> TRUE, year |-> 0, nsta |-> 0, n |-> 0]

\* The inputs of a call of a synthesis function, before any was made
SynInput(t, z0, f_seasonal) ==
    [op |-> "none", t |-> t, z0 |-> z0, f_seasonal |-> f_seasonal, n |-> 0,
     delt |-> 0, res |-> <<>>]

NoSyn == SynInput(0, 0, FALSE)

InitSynth ==
    /\ ft03 = GoodFt03 /\ ft07 = GoodFt07 /\ ft08 = GoodFt08
    /\ \E c \in SynthCases : tc = c.tc /\ st = c.st
    /\ last = NoCall /\ prev = NoCall
    /\ drv = Idle
    /\ \E t \in StartTimes, z0 \in Baselines, f \in BOOLEAN :
          syn = SynInput(t, z0, f)

CallTideT ==
    /\ syn.op = "none"
    /\ syn' = [syn EXCEPT !.op = "tide_t",
                          !.res = tide_t(tc, syn.t, syn.z0, syn.f_seasonal)]
    /\ UNCHANGED <<ft03, ft07, ft08, tc, st, last, prev, drv>>

CallTideHours ==
    /\ syn.op = "none"
    /\ \E n \in 0..MaxCount, delt \in Delts :
          syn' = [syn EXCEPT !.op = "tide_hours", !.n = n, !.delt = delt,
                             !.res = tide_hours(tc, syn.t, syn.z0,
                                                syn.f_seasonal, n, delt)]
    /\ UNCHANGED <<ft03, ft07, ft08, tc, st, last, prev, drv>>

CallMaxMin ==
    /\ syn.op = "none"
    /\ syn' = [syn EXCEPT !.op = "tide_MaxMin",
                          !.res = tide_MaxMin(tc, syn.t, syn.z0,
                                              syn.f_seasonal)]
    /\ UNCHANGED <<ft03, ft07, ft08, tc, st, last, prev, drv>>

CallSecTideT ==
    /\ syn.op = "none"
    /\ syn' = [syn EXCEPT !.op = "secTide_t",
                          !.res = secTide_t(st, syn.t, syn.z0,
                                            syn.f_seasonal)]
    /\ UNCHANGED <<ft03, ft07, ft08, tc, st, last, prev, drv>>

\* A caller calls secTide_hours(st, t, z0, f_seasonal, n, delt)
CallSecTideHours ==
    /\ syn.op = "none"
    /\ \E n \in 0..MaxCount, delt \in Delts :
          syn' = [syn EXCEPT !.op = "secTide_hours", !.n = n, !.delt = delt,
                             !.res = secTide_hours(st, syn.t, syn.z0,
                                                   syn.f_seasonal, n, delt)]
    /\ UNCHANGED <<ft03, ft07, ft08, tc, st, last, prev, drv>>

NextSynth == CallTideT \/ CallTideHours \/ CallMaxMin \/ CallSecTideT

SpecSynth == InitSynth /\ [][NextSynth]_vars

---------------------------------------------------------------------------
(* SpecSeries: secTide_hours or secTide_t applied to bounded inputs *)

\* Start times of a series: every six hours from 0 to MaxSeries times that,
\* and the tick after each
MaxSeries == 3

SeriesStarts ==
    {k * 6 * TicksPerHour + j : k \in 0..MaxSeries, j \in {0, 1}}

\* The stations a series is asked for: one whose highs and lows are shifted
\* by different times, one whose highs and lows are shifted by the same
\* time, the identity on the single cosine, and one that was never loaded
SeriesCases ==
    {LoadedSecond(2023, 2), LoadedSecond(2024, 3), SingleCosineSecond,
     SecondaryType(0)}

InitSeries ==
    /\ ft03 = GoodFt03 /\ ft07 = GoodFt07 /\ ft08 = GoodFt08
    /\ st \in SeriesCases /\ tc = st.tc
    /\ last = NoCall /\ prev = NoCall
    /\ drv = Idle
    /\ \E t \in SeriesStarts, z0 \in Baselines, f \in BOOLEAN :
          syn = SynInput(t, z0, f)

NextSeries == CallSecTideHours \/ CallSecTideT

SpecSeries == InitSeries /\ [][NextSeries]_vars

---------------------------------------------------------------------------
(* SpecLoad: any sequence of LoadConstit calls on one TideConstitType,     *)
(* over a yearly file and a station file that may be damaged, with a       *)
(* synthesis tried after any of them                                       *)

\* The line the block of year y starts at in GoodFt03
BlockLine(y) == 5 * (y - GoodFt03.first) + 1

\* Yearly files: the good one, one whose block of 2024 carries a wrong year
\* tag on its first line, one whose block of 2023 carries one on its third
\* line, and one that ends inside the block of 2024
Ft03Files ==
    {GoodFt03,
     [GoodFt03 EXCEPT !.badline = BlockLine(2024)],
     [GoodFt03 EXCEPT !.badline = BlockLine(2023) + 2],
     [GoodFt03 EXCEPT !.nlines = BlockLine(2024) + 2]}

\* Station files: the good one, one whose record of station 2 carries a
\* wrong tag, and one that ends inside the record of station 2
Ft07Files ==
    {GoodFt07,
     [GoodFt07 EXCEPT !.badsta = 2],
     [GoodFt07 EXCEPT !.nlines = 6 + 8 + 4]}

\* The years and stations LoadConstit is called with: a year before the
\* file starts, and one station more than the file holds
LoadYears == {1799, 2023, 2024}

LoadStations == {1, 2, NumSta + 1}

\* The calls made on one object
MaxCalls == 3

\* At most one of the two files is damaged
InitLoad ==
    /\ ft03 \in Ft03Files /\ ft07 \in Ft07Files /\ ft08 = GoodFt08
    /\ ft03 = GoodFt03 \/ ft07 = GoodFt07
    /\ \E g \in Garbage : tc = TideConstitType(g) /\ st = SecondaryType(g)
    /\ last = NoCall /\ prev = NoCall
    /\ drv = Idle
    /\ syn = NoSyn

\* What is kept of a call when the next one is made
Summary(c) ==
    [op |-> c.op, ok |-> c.ok, year |-> c.year, nsta |-> c.nsta, n |-> c.n]

\* A caller calls LoadConstit(tc, ft03, ft07, year, nsta)
CallLoadConstit ==
    \E year \in LoadYears, nsta \in LoadStations :
        \E r \in {LoadConstit(tc, ft03, ft07, year, nsta)} :
            /\ last.n < MaxCalls
            /\ tc' = r.tc
            /\ last' = [op |-> "LoadConstit", ok |-> r.ok, year |-> year,
                        nsta |-> nsta, err |-> r.err,
                        opened03 |-> r.opened03, opened07 |-> r.opened07,
                        tag |-> r.tag, before |-> tc, n |-> last.n + 1]
            /\ prev' = Summary(last)
            /\ syn' = NoSyn
            /\ UNCHANGED <<ft03, ft07, ft08, st, drv>>

\* A caller calls tide_t(tc, 0, 0, True) after a load
CallSynthesis ==
    /\ last.op = "LoadConstit"
    /\ syn.op = "none"
    /\ syn' = [syn EXCEPT !.op = "tide_t",
                          !.res = tide_t(tc, syn.t, syn.z0, TRUE)]
    /\ UNCHANGED <<ft03, ft07, ft08, tc, st, last, prev, drv>>

NextLoad == CallLoadConstit \/ CallSynthesis

SpecLoad == InitLoad /\ [][NextLoad]_vars

---------------------------------------------------------------------------
(* SpecSecond: any sequence of LoadSecond calls on one SecondaryType, over *)
(* an adjustment file and a station file that may be damaged               *)

\* Adjustment files: the good one, one whose line of station 2 ends after
\* the reference station, before the time offsets, one whose line of
\* station 1 has no ':' in its second time offset, and one whose line of
\* station 1 has the time offsets "-0:30" and "-1:15"
Ft08Files ==
    {GoodFt08, [GoodFt08 EXCEPT ![4].pipes = 9],
     [GoodFt08 EXCEPT ![3].minT.colon = FALSE],
     [GoodFt08 EXCEPT ![3].maxT = TimeText(TRUE, 0, 30, TRUE),
                      ![3].minT = TimeText(TRUE, 1, 15, TRUE)]}

\* At most one of the two files is damaged
InitSecond ==
    /\ ft03 = GoodFt03
    /\ ft07 \in {GoodFt07, [GoodFt07 EXCEPT !.badsta = 2]}
    /\ ft08 \in Ft08Files
    /\ ft07 = GoodFt07 \/ ft08 = GoodFt08
    /\ \E g \in Garbage : tc = TideConstitType(g) /\ st = SecondaryType(g)
    /\ last = NoCall /\ prev = NoCall
    /\ drv = Idle
    /\ syn = NoSyn

\* A caller calls LoadSecond(st, ft03, ft07, ft08, year, secSta)
CallLoadSecond ==
    \E year \in LoadYears, secSta \in LoadStations :
        \E r \in {LoadSecond(st, ft03, ft07, ft08, year, secSta)} :
            /\ last.n < MaxCalls
            /\ st' = r.st
            /\ last' = [op |-> "LoadSecond", ok |-> r.ok, year |-> year,
                        nsta |-> secSta, err |-> r.err,
                        opened03 |-> r.opened03, opened07 |-> r.opened07,
                        opened08 |-> r.opened08, tag |-> r.tag,
                        before |-> st, n |-> last.n + 1]
            /\ prev' = Summary(last)
            /\ UNCHANGED <<ft03, ft07, ft08, tc, drv, syn>>

NextSecond == CallLoadSecond

SpecSecond == InitSecond /\ [][NextSecond]_vars

---------------------------------------------------------------------------
(* Claims about the cache, checked under SpecLoad *)

\* The year arrays of c are what a completed read of the block of c.year
\* gives
YearFilled(c) ==
    LET r == read_ft03(ft03, c.year, Empty(0), Empty(0))
    IN  r.ok /\ c.xode = r.xode /\ c.vpu = r.vpu

\* The station arrays of c are what a completed read of the record of
\* c.nsta gives
StationFilled(c) ==
    LET r == read_ft07(ft07, c.nsta, Empty(0), Empty(0), Empty(0))
    IN  /\ r.ok
        /\ c.ang = r.ang /\ c.amp = r.amp /\ c.epoc = r.epoc
        /\ c.mllw = r.mllw

\* One of the synthesis functions returns on c
Synthesizes(c) ==
    \/ tide_t(c, 0, 0, TRUE).ok
    \/ tide_hours(c, 0, 0, TRUE, 1, TicksPerHour).ok
    \/ tide_MaxMin(c, 0, 0, TRUE).ok

\* C1: after any sequence of LoadConstit calls, failed ones included,
\* tide_t, tide_hours and tide_MaxMin return only if the year arrays and the
\* station arrays were filled by a completed load of the cached year and
\* station.
C1_SynthesisNeedsCompletedLoad ==
    last.op = "LoadConstit" /\ Synthesizes(tc)
        => YearFilled(tc) /\ StationFilled(tc)

\* C2: a LoadConstit call that raises leaves year, nsta, mllw and the five
\* arrays as they were before the call.
C2_FailedLoadLeavesCache ==
    last.op = "LoadConstit" /\ ~last.ok => tc = last.before

\* The last two calls were LoadConstit with the same year and station, and
\* the first of them returned
RepeatedLoad ==
    /\ last.op = "LoadConstit" /\ prev.op = "LoadConstit"
    /\ prev.ok
    /\ last.year = prev.year /\ last.nsta = prev.nsta

\* C3: a LoadConstit call that follows a successful one with the same year
\* and station opens neither file and leaves xode, vpu, ang, amp, epoc and
\* mllw as the first call left them.
C3_RepeatLoadReadsNothing ==
    RepeatedLoad =>
        /\ last.ok
        /\ ~last.opened03 /\ ~last.opened07
        /\ tc.xode = last.before.xode /\ tc.vpu = last.before.vpu
        /\ tc.ang = last.before.ang /\ tc.amp = last.before.amp
        /\ tc.epoc = last.before.epoc /\ tc.mllw = last.before.mllw

\* Two loads of (2024, 2) from undamaged files, after a load of something
\* else
C3_Witness ==
    /\ RepeatedLoad
    /\ ft03 = GoodFt03 /\ ft07 = GoodFt07
    /\ last.year = 2024 /\ last.nsta = 2
    /\ last.n = MaxCalls
    /\ tc.mllw = Mllw07(2)

\* The last call was LoadSecond with the secondary id st held before it
CachedSecond ==
    last.op = "LoadSecond" /\ last.before.secSta = last.nsta

\* C14: LoadSecond called with the secondary id already cached does not
\* open the adjustment file and leaves the time offsets and the amplitude
\* scales as they were; when it returns, st.tc holds the year arrays of the
\* requested year, st.tc.year is that year, and st.tc.nsta is unchanged and
\* is the reference station the adjustment file gives for the id.
C14_CachedSecondReloadsYear ==
    CachedSecond =>
        /\ ~last.opened08
        /\ st.secSta = last.before.secSta
        /\ st.maxTime = last.before.maxTime
        /\ st.minTime = last.before.minTime
        /\ st.maxAdj = last.before.maxAdj /\ st.minAdj = last.before.minAdj
        /\ last.ok =>
              /\ st.tc.year = last.year
              /\ st.tc.xode
                    = read_ft03(ft03, last.year, Empty(0), Empty(0)).xode
              /\ st.tc.nsta = last.before.tc.nsta
              /\ FindStation(ft08, 1, last.nsta) # 0
              /\ st.tc.nsta = ft08[FindStation(ft08, 1, last.nsta)].ref

\* C15: a LoadConstit call whose station is the cached one and whose year
\* is not leaves ang, amp, epoc, mllw and nsta as they were; a call whose
\* year is the cached one and whose station is not leaves xode, vpu and year
\* as they were.
C15_LoadTouchesOneDimension ==
    last.op = "LoadConstit" =>
        /\ last.before.nsta = last.nsta /\ last.before.year # last.year =>
              /\ tc.ang = last.before.ang /\ tc.amp = last.before.amp
              /\ tc.epoc = last.before.epoc /\ tc.mllw = last.before.mllw
              /\ tc.nsta = last.before.nsta
        /\ last.before.year = last.year /\ last.before.nsta # last.nsta =>
              /\ tc.xode = last.before.xode /\ tc.vpu = last.before.vpu
              /\ tc.year = last.before.year

\* Station 2 is loaded for 2023 and then for 2024: the year arrays change
C15_Witness ==
    /\ last.op = "LoadConstit" /\ last.ok
    /\ last.before.nsta = 2 /\ last.nsta = 2
    /\ last.before.year = 2023 /\ last.year = 2024
    /\ tc.xode # last.before.xode /\ tc.vpu # last.before.vpu
    /\ tc.amp = [i \in Idx |-> Amp07(2, i)]

---------------------------------------------------------------------------
(* Claims about the synthesis functions, checked under SpecSynth *)

\* C7: element k of tide_hours(tc, start, z0, seasonal, count, step) is
\* tide_t(tc, start + k*step, z0, seasonal), for k in 0..count-1, on a
\* loaded constituent set.
C7_HoursArePointwise ==
    syn.op = "tide_hours" /\ ~Unloaded(tc) =>
        /\ syn.res.ok
        /\ Len(syn.res.zhr) = syn.n
        /\ \A k \in 0..(syn.n - 1) :
              syn.res.zhr[k + 1]
                  = tide_t(tc, syn.t + k * syn.delt, syn.z0,
                           syn.f_seasonal).z

\* A non-seasonal series of MaxCount samples half an hour apart that is not
\* flat
C7_Witness ==
    /\ syn.op = "tide_hours" /\ ~Unloaded(tc)
    /\ syn.n = MaxCount /\ syn.delt = TicksPerHour \div 2
    /\ ~syn.f_seasonal
    /\ syn.res.zhr[1] # syn.res.zhr[MaxCount]

\* c with the amplitudes at the zero-based indices 14 and 16 set to zero
ZeroSeasonal(c) ==
    [c EXCEPT !.amp = [i \in Idx |-> IF i \in {14 + 1, 16 + 1} THEN 0
                                     ELSE c.amp[i]]]

\* C8: with f_seasonal false, tide_t and tide_hours return what they return
\* with f_seasonal true on the set whose amplitudes at zero-based indices 14
\* and 16 are zero: those two terms are left out, the other 35 are not.
C8_NonSeasonalDropsTwoTerms ==
    /\ syn.op = "tide_t" /\ ~syn.f_seasonal /\ syn.res.ok =>
          syn.res.z = tide_t(ZeroSeasonal(tc), syn.t, syn.z0, TRUE).z
    /\ syn.op = "tide_hours" /\ ~syn.f_seasonal /\ syn.res.ok =>
          syn.res.zhr = tide_hours(ZeroSeasonal(tc), syn.t, syn.z0, TRUE,
                                   syn.n, syn.delt).zhr

\* A non-seasonal value on a set whose two seasonal terms, and the terms
\* next to them, are not zero
C8_Witness ==
    /\ syn.op = "tide_t" /\ ~syn.f_seasonal /\ syn.res.ok
    /\ \A i \in 14..18 : Eqn(tc, syn.t)[i] # 0
    /\ syn.res.z # tide_t(tc, syn.t, syn.z0, TRUE).z

\* The transform of s is the identity: no time offsets, unit factors, and a
\* reference station whose mllw is zero
IdentityTransform(s) ==
    /\ s.maxTime = 0 /\ s.minTime = 0
    /\ s.maxAdj = 100 /\ s.minAdj = 100
    /\ s.tc.mllw = 0

\* C9: with zero time offsets, unit factors and zero mllw, secTide_t(st, t,
\* z0, seasonal) returns tide_t(st.tc, t, z0, seasonal) wherever tide_MaxMin
\* returns.
C9_IdentityTransform ==
    /\ syn.op = "secTide_t" /\ IdentityTransform(st)
    /\ SecGuard(st) = "" /\ syn.res.err # "hang"
    =>  /\ syn.res.ok /\ syn.res.err = ""
        /\ syn.res.z = tide_t(st.tc, syn.t, syn.z0, syn.f_seasonal).z

\* The identity transform applied to station 1 of the files, at a time the
\* curve is not at its baseline
C9_Witness ==
    /\ syn.op = "secTide_t" /\ IdentityTransform(st)
    /\ st = LoadedSecond(2024, 1)
    /\ syn.res.ok /\ syn.res.err = ""
    /\ syn.res.z # syn.z0

\* The distance from t to the nearest time that is r modulo a day, in ticks
DayDistance(t, r) ==
    LET m == (t - r) % (24 * TicksPerHour)
    IN  Min(m, 24 * TicksPerHour - m)

\* C10: on the single cosine of amplitude 1, speed 15 degrees per hour and
\* phase 0, tide_MaxMin returns from any start time with tMax within 0.05 h
\* of a multiple of 24, tMin within 0.05 h of 12 modulo 24, and hMax and hMin
\* the values of the curve there.
C10_SingleCosineExtrema ==
    syn.op = "tide_MaxMin" /\ tc = SingleCosine =>
        /\ syn.res.ok /\ ~syn.res.hang
        /\ DayDistance(syn.res.tMax, 0) <= MAX_RES
        /\ DayDistance(syn.res.tMin, 12 * TicksPerHour) <= MAX_RES
        /\ syn.res.hMax
              = tide_t(tc, syn.res.tMax, syn.z0, syn.f_seasonal).z
        /\ syn.res.hMin
              = tide_t(tc, syn.res.tMin, syn.z0, syn.f_seasonal).z

\* A search started on a falling stretch, off the grid the extrema lie on
C10_Witness ==
    /\ syn.op = "tide_MaxMin" /\ tc = SingleCosine
    /\ syn.t % MAX_RES = 1
    /\ syn.res.tMax < syn.t /\ syn.t < syn.res.tMin
    /\ syn.res.hMax > syn.z0 /\ syn.res.hMin < syn.z0

\* C17: tide_MaxMin returns for every loaded constituent set and every
\* start time, a set whose curve is constant included: none of its loops
\* runs for ever.
C17_MaxMinTerminates ==
    syn.op = "tide_MaxMin" /\ ~Unloaded(tc) =>
        syn.res.ok /\ ~syn.res.hang

\* C11: element k of secTide_hours(st, start, z0, seasonal, count, step) is
\* secTide_t(st, start + k*step, z0, seasonal), for k in 0..count-1, on a
\* loaded secondary station.
C11_SeriesIsPointwise ==
    syn.op = "secTide_hours" /\ SecGuard(st) = "" /\ syn.res.ok =>
        /\ Len(syn.res.zhr) = syn.n
        /\ \A k \in 0..(syn.n - 1) :
              syn.res.zhr[k + 1]
                  = secTide_t(st, syn.t + k * syn.delt, syn.z0,
                              syn.f_seasonal).z

---------------------------------------------------------------------------
(* SpecDriver: one call of TideC_stn, taken a chunk at a time, over a good *)
(* station file or one whose record of station 2 carries a wrong tag       *)

\* The hours of year y by the Gregorian calendar
YearHours(y) ==
    24 * (365 + (IF y % 400 = 0 \/ (y % 4 = 0 /\ y % 100 # 0) THEN 1 ELSE 0))

\* An hourly request with step 1 for n hours from hour h of year y
Request(y, h, n, station, is_secondary) ==
    [cmd |-> "hourly", station |-> station, date |-> "aware", year |-> y,
     hour |-> h, numHour |-> n, initHeight |-> 0, is_seasonal |-> TRUE,
     is_secondary |-> is_secondary, add_mllw |-> TRUE, delt |-> TicksPerHour,
     g |-> 0]

\* The years requests start in: the years before and of a century that is
\* no leap year, and the years before and of a leap year
StartYears == {1899, 1900, 2023, 2024}

\* How long before the end of its year a request starts, in hours
MaxBack == 30

\* How long after the end of its first year a request ends, in hours
MaxOver == 27

\* Requests for primary stations that end at or after the end of the year
\* they start in
BoundaryRequests ==
    {Request(y, YearHours(y) - back, back + over, station, FALSE) :
        y \in StartYears, back \in {1, MaxBack}, over \in {0, 3, MaxOver},
        station \in {1, 2}}

\* The same for secondary stations
SecondaryRequests ==
    {Request(y, YearHours(y) - back, back + over, station, TRUE) :
        y \in {2023, 2024}, back \in {1, MaxBack}, over \in {3, MaxOver},
        station \in {1, 2, 3}}

\* Requests that start in the last hour of a year, run through the whole of
\* the next and end in the year after it
LongRequests ==
    {Request(y, YearHours(y) - 1, 1 + YearHours(y + 1) + 3, 1, FALSE) :
        y \in {1899, 2023}}

\* Requests inside a year, and the variants of the flags
InsideRequests ==
    {Request(2023, 0, 5, 2, FALSE), Request(2023, 12, 30, 3, TRUE),
     [Request(2023, 100, 4, 2, FALSE) EXCEPT !.add_mllw = FALSE],
     [Request(2023, 100, 4, 2, TRUE) EXCEPT !.add_mllw = FALSE],
     [Request(2024, 7, 3, 1, FALSE) EXCEPT !.is_seasonal = FALSE],
     [Request(2024, 7, 4, 1, FALSE) EXCEPT !.delt = TicksPerHour \div 2],
     [Request(2024, 7, 3, 1, FALSE) EXCEPT !.g = 1005],
     Request(2023, 0, 0, 2, FALSE), Request(2023, 0, 0, 3, TRUE),
     Request(2024, YearHours(2024) - 14, 0, 1, FALSE),
     [Request(2023, YearHours(2023) - 2, 4, 1, FALSE)
         EXCEPT !.delt = TicksPerHour \div 2]}

\* Requests the argument checks turn down, and stations the files lack
RefusedRequests ==
    {[Request(2023, 0, 5, 1, FALSE) EXCEPT !.date = "naive"],
     [Request(2023, 0, 5, 1, FALSE) EXCEPT !.date = "NaT"],
     [Request(2023, 0, 5, 1, FALSE) EXCEPT !.cmd = "maxmin"],
     [Request(2023, 0, 5, 1, FALSE) EXCEPT !.delt = 2 * TicksPerHour],
     [Request(2023, 0, 49, 1, FALSE) EXCEPT !.delt = TicksPerHour \div 2],
     Request(2023, 0, 5, -1, FALSE),
     Request(1799, 0, 5, 1, FALSE), Request(2046, 0, 5, 1, FALSE),
     Request(2023, 0, 5, NumSta + 1, FALSE),
     Request(2023, 0, 5, NumSta + 1, TRUE)}

\* Requests that start in the last hour of the last year the yearly file
\* holds and end in the year after it
EndOfTableRequests ==
    {Request(2045, YearHours(2045) - 1, 1 + 3, station, FALSE) :
        station \in {1, 2}}

Requests ==
    BoundaryRequests \cup SecondaryRequests \cup LongRequests
    \cup InsideRequests \cup RefusedRequests \cup EndOfTableRequests

InitDriver ==
    /\ ft03 = GoodFt03 /\ ft08 = GoodFt08
    /\ ft07 \in {GoodFt07, [GoodFt07 EXCEPT !.badsta = 2]}
    /\ tc = TideConstitType(0) /\ st = SecondaryType(0)
    /\ last = NoCall /\ prev = NoCall
    /\ drv = Idle
    /\ syn = NoSyn

\* TideC_stn is called: the argument checks and the first load
CallTideC ==
    /\ drv.pc = "idle"
    /\ \E req \in Requests : drv' = Begin(req, ft03, ft07, ft08)
    /\ UNCHANGED <<ft03, ft07, ft08, tc, st, last, prev, syn>>

\* The single call, or the first chunk
RunHourly ==
    /\ drv.pc = "loaded"
    /\ drv' = Hourly(drv)
    /\ UNCHANGED <<ft03, ft07, ft08, tc, st, last, prev, syn>>

\* One iteration of the chunked loop
RunChunk ==
    /\ drv.pc = "loop" /\ drv.numHour > 0
    /\ drv' = ChunkStep(drv, ft03, ft07, ft08)
    /\ UNCHANGED <<ft03, ft07, ft08, tc, st, last, prev, syn>>

\* The loop ends and TideC_stn returns
RunReturn ==
    /\ drv.pc = "loop" /\ drv.numHour <= 0
    /\ drv' = Return(drv)
    /\ UNCHANGED <<ft03, ft07, ft08, tc, st, last, prev, syn>>

NextDriver == CallTideC \/ RunHourly \/ RunChunk \/ RunReturn

SpecDriver == InitDriver /\ [][NextDriver]_vars

---------------------------------------------------------------------------
(* Claims about the driver, checked under SpecDriver *)

\* The station read_ft07 is asked for by the call d: the station of the
\* request, or the reference station of the requested secondary station
RequestedStation(d) ==
    IF d.req.is_secondary
    THEN ft08[FindStation(ft08, 1, d.req.station)].ref
    ELSE d.req.station

\* read_ft07 read a station tag for the call d, and it is not the station
\* asked for
TagMismatch(d) == d.tag # NoTag /\ d.tag # RequestedStation(d)

\* The station tag of the record of station nsta in the station file is
\* not nsta
WrongTag(nsta) == nsta \in 1..NumSta /\ Ft07Tag(ft07, Ft07Line(nsta)) # nsta

\* C4: whenever the station tag read at the target record differs from the
\* requested station, read_ft07 raises "Encountered unexpected station ID!",
\* LoadConstit and LoadSecond raise it too, and TideC_stn ends raising it,
\* with no series returned and no further step taken.
C4_TagMismatchReachesCaller ==
    /\ \A nsta \in 1..NumSta : WrongTag(nsta) =>
          /\ ~read_ft07(ft07, nsta, Empty(0), Empty(0), Empty(0)).ok
          /\ read_ft07(ft07, nsta, Empty(0), Empty(0), Empty(0)).err
                = "Encountered unexpected station ID!"
          /\ ~LoadConstit(TideConstitType(0), ft03, ft07, 2023, nsta).ok
          /\ \A sec \in 1..3 : ft08[FindStation(ft08, 1, sec)].ref = nsta =>
                LoadSecond(SecondaryType(0), ft03, ft07, ft08, 2023, sec).err
                    = "Encountered unexpected station ID!"
    /\ drv.pc # "idle" /\ TagMismatch(drv) =>
          /\ drv.pc = "raised"
          /\ drv.err = "Encountered unexpected station ID!"
          /\ drv.data = <<>>
          /\ ~ENABLED NextDriver

\* A request for secondary station 3 has ended raising the error, the
\* record of its reference station, 2, carrying another tag
C4_Witness ==
    /\ drv.pc = "raised" /\ TagMismatch(drv)
    /\ drv.req.is_secondary /\ drv.req.station = 3
    /\ WrongTag(2)
    /\ drv.opened = {"ft03", "ft07", "ft08"}

\* The request req asks for hours of two years only: it starts inside its
\* year with step 1 and ends before the end of the next
CrossesOnce(req) ==
    /\ req.delt = TicksPerHour
    /\ req.hour < YearHours(req.year)
    /\ req.hour + req.numHour > YearHours(req.year)
    /\ req.hour + req.numHour
          < YearHours(req.year) + YearHours(req.year + 1)

\* The request for the hours of req that lie in the year it starts in
FirstPiece(req) ==
    [req EXCEPT !.numHour = YearHours(req.year) - req.hour]

\* The request for the hours of req that lie in the next year
SecondPiece(req) ==
    [req EXCEPT !.year = @ + 1, !.hour = 0,
                !.numHour = req.hour + req.numHour - YearHours(req.year)]

\* The series of the two pieces of req, one after the other
Pieces(req) ==
    TideC_stn(FirstPiece(req), ft03, ft07, ft08).data
        \o TideC_stn(SecondPiece(req), ft03, ft07, ft08).data

\* C5: the series TideC_stn returns for a request with step 1 that crosses
\* the end of its year is the series for its hours up to the end of the
\* year followed by the series from hour 0 of the next year, for primary
\* and for secondary stations.
C5_BoundaryConcatenation ==
    drv.pc = "done" /\ CrossesOnce(drv.req) => drv.data = Pieces(drv.req)

\* C6: an iteration of the chunked loop wraps the running hour to 0 and
\* advances the year exactly when the running hour has reached the hours of
\* the year by the Gregorian calendar, 8784 or 8760, and the year length in
\* use afterwards is that of the year the loop is in.
C6_WrapAtYearLength ==
    [][drv.pc = "loop" /\ drv.numHour > 0 =>
          /\ drv.initHour <= YearHours(drv.year)
          /\ drv.totHour = YearHours(drv.year)
          /\ drv'.wrap.wrapped = (drv.initHour = YearHours(drv.year))
          /\ drv'.wrap.hour0
                = (IF drv.initHour = YearHours(drv.year) THEN 0
                   ELSE drv.initHour)
          /\ drv'.year
                = (IF drv.initHour = YearHours(drv.year) THEN drv.year + 1
                   ELSE drv.year)
          /\ drv'.totHour = YearHours(drv'.year)]_vars

\* The loop entered the leap year 2024 from 2023 and has left it at hour
\* 8784 for 2025
C6_Witness ==
    /\ drv.wrap.wrapped /\ drv.wrap.year = 2024
    /\ drv.wrap.hour = 366 * 24 /\ drv.wrap.hour0 = 0
    /\ drv.year = 2025 /\ drv.totHour = 365 * 24
    /\ drv.years = <<2023, 2024, 2025>>

\* The request is one the argument checks are to turn down: its year is
\* outside 1800..2045, its date is missing, its station is -1, or its step
\* is not 1 and is above 1 or covers more than 24 hours
Rejected(req) ==
    \/ ~(1800 <= req.year /\ req.year <= 2045)
    \/ req.date = "NaT"
    \/ req.station = -1
    \/ /\ req.delt # TicksPerHour
       /\ ~(req.delt <= TicksPerHour
            /\ req.delt * req.numHour <= 24 * TicksPerHour)

\* C12: for a year outside 1800..2045, a missing date, a station of -1 or a
\* step that is not 1 and breaks (step <= 1 and step*numHour <= 24),
\* TideC_stn raises, and none of the three files was opened before.
C12_RejectedBeforeFiles ==
    drv.pc # "idle" /\ Rejected(drv.req) =>
        /\ drv.pc = "raised"
        /\ drv.opened = {} /\ drv.years = <<>>
        /\ drv.data = <<>>
        /\ ~ENABLED NextDriver

\* A request for 2046 and a station the files hold was turned down
C12_Witness ==
    /\ drv.pc = "raised" /\ drv.req.year = 2046
    /\ drv.req.station \in 1..NumSta
    /\ drv.err = "Date must be between year 1800 and 2045!"
    /\ drv.opened = {}

\* The errors tide_hours and secTide_hours raise
SeriesErrors ==
    {"Invalid tide constituent info input!",
     "secSta not initialized correctly!", "IndexError"}

RECURSIVE HoursSince(_, _, _)
\* The hours from the start of year y0 to hour h of year y
HoursSince(y0, y, h) ==
    IF y <= y0 THEN h ELSE HoursSince(y0, y - 1, h + YearHours(y - 1))

\* C13: a call whose arguments are accepted and whose loads succeed returns
\* exactly numHour heights, for numHour >= 0, on the single-call path and on
\* the chunked path: no series function raises, and with step 1 every chunk
\* starts at the hour the samples before it end at.
C13_ExactlyNumHour ==
    /\ drv.pc = "done" => Len(drv.data) = drv.req.numHour
    /\ drv.pc = "raised" => drv.err \notin SeriesErrors
    /\ drv.pc \in {"loop", "done"} /\ drv.req.delt = TicksPerHour =>
          HoursSince(drv.req.year, drv.chunk.year, drv.chunk.initHour)
              + drv.chunk.n
          = drv.req.hour + Len(drv.data)

\* mllw/1000 of the station read_ft07 is asked for by the call d, as the
\* station file gives it, in units of height
StationMllw(d) == Mllw07(RequestedStation(d)) * (One \div 1000)

\* The first load of the call d returned
FirstLoadDone(d) == d.pc \in {"loaded", "loop", "done"}

\* C16 as stated: for a secondary station the baseline handed to the series
\* function is the caller's plus mllw/1000 when add_mllw is false and the
\* caller's when it is true; for a primary station it is the caller's plus
\* mllw/1000 exactly when add_mllw is true.
C16_SecondaryAddsMllw ==
    FirstLoadDone(drv) =>
        drv.initHeight
            = drv.req.initHeight
              + (IF drv.req.is_secondary = ~drv.req.add_mllw
                 THEN StationMllw(drv) ELSE 0)

\* C16 amended: for a secondary station the baseline is the caller's minus
\* mllw/1000 when add_mllw is false and the caller's when it is true; for a
\* primary station it is the caller's plus mllw/1000 exactly when add_mllw is
\* true.
C16_SecondarySubtractsMllw ==
    FirstLoadDone(drv) =>
        drv.initHeight
            = drv.req.initHeight
              + (IF drv.req.is_secondary
                 THEN (IF drv.req.add_mllw THEN 0 ELSE -StationMllw(drv))
                 ELSE (IF drv.req.add_mllw THEN StationMllw(drv) ELSE 0))

\* A series for a secondary station whose reference station has an mllw,
\* asked for without add_mllw, has returned
C16_Witness ==
    /\ drv.pc = "done" /\ drv.req.is_secondary /\ ~drv.req.add_mllw
    /\ StationMllw(drv) > 0
    /\ drv.initHeight = drv.req.initHeight - StationMllw(drv)
    /\ Len(drv.data) = drv.req.numHour /\ drv.req.numHour > 0

\* The constituents the series functions of the call d work on
InUse(d) == IF d.req.is_secondary THEN d.tt.st.tc ELSE d.tt.tc

\* C18: at every call of tide_hours or secTide_hours made by TideC_stn with
\* step 1, the chunk lies inside the year the constituents were loaded for
\* (0 <= initHour and initHour + length <= the hours of that year), and that
\* year is the calendar year of the chunk's hours: counted from the start of
\* the requested year, the chunk starts at the requested hour plus the
\* number of samples before it, and the year arrays in use are those the
\* yearly file holds for that year.
C18_ChunkInsideLoadedYear ==
    drv.chunk.kind # "none" /\ drv.req.delt = TicksPerHour =>
        /\ 0 <= drv.chunk.initHour
        /\ drv.chunk.initHour + drv.chunk.n <= YearHours(drv.chunk.year)
        /\ drv.pc \in {"loop", "done"} =>
              /\ HoursSince(drv.req.year, drv.chunk.year, drv.chunk.initHour)
                    = drv.req.hour + Len(drv.data) - drv.chunk.n
              /\ InUse(drv).year = drv.chunk.year
              /\ InUse(drv).xode
                    = read_ft03(ft03, drv.chunk.year, Empty(0), Empty(0)).xode

\* A request that starts 30 hours before the end of the leap year 2024 has
\* computed its chunk of 2025, from hour 0, after chunks of 6 and 24 hours
C18_Witness ==
    /\ drv.chunk.kind = "later" /\ drv.chunk.year = 2025
    /\ drv.chunk.initHour = 0 /\ drv.chunk.n = 3
    /\ drv.req.year = 2024 /\ drv.req.hour = 366 * 24 - 30
    /\ Len(drv.data) = 6 + 24 + 3

\* The whole series of the call d came from its last call of tide_hours or
\* secTide_hours: that call started at the requested hour of the requested
\* year and gave every sample
OneCall(d) ==
    /\ d.chunk.year = d.req.year
    /\ d.chunk.initHour = d.req.hour
    /\ d.chunk.n = d.req.numHour

\* C19: a returned series was computed by a single call of tide_hours or
\* secTide_hours exactly when the requested start hour plus the hour count
\* stays within the hours of the requested year, 366 * 24 for a leap year
\* and 365 * 24 otherwise; any other request crosses the year boundary and
\* is chunked.
C19_SingleCallWithinYear ==
    drv.pc = "done" /\ drv.chunk.kind # "none" =>
        (OneCall(drv)
            <=> drv.req.hour + drv.req.numHour <= YearHours(drv.req.year))

\* The samples the call d had computed before its last chunk
Before(d) == Len(d.data) - d.chunk.n

\* The last chunk of the call d is one of the loop and was computed
LaterDone(d) == d.chunk.kind = "later" /\ d.pc \in {"loop", "done"}

\* C20 as stated: when TideC_stn splits a range, its first chunk runs from
\* the requested hour to the last hour of the requested year, and every
\* later chunk has 24 hours, or the remaining count if smaller, and lies in
\* a following year, the first of them from hour 0 of the year after the
\* requested one.
C20_FirstChunkEndsYear ==
    /\ drv.chunk.kind = "first" =>
          /\ drv.chunk.initHour = drv.req.hour
          /\ drv.chunk.initHour + drv.chunk.n = YearHours(drv.req.year)
    /\ LaterDone(drv) =>
          /\ drv.chunk.n = Min(24, drv.req.numHour - Before(drv))
          /\ drv.chunk.year > drv.req.year
          /\ Before(drv) = YearHours(drv.req.year) - drv.req.hour =>
                drv.chunk.year = drv.req.year + 1 /\ drv.chunk.initHour = 0

\* C20 amended: when TideC_stn splits a range, its first chunk runs from the
\* requested hour to the end of the current day (24 - hour mod 24 hours) or
\* for the requested count if that is smaller; every later chunk has 24
\* hours, or the remaining count if smaller, starts on a day boundary inside
\* the year loaded for it and as many hours after the requested hour as
\* there are samples before it, so that the chunk after the last hour of a
\* year starts at hour 0 of the following year.
C20_FirstChunkEndsDay ==
    /\ drv.chunk.kind = "first" =>
          /\ drv.chunk.year = drv.req.year
          /\ drv.chunk.initHour = drv.req.hour
          /\ drv.chunk.n = Min(drv.req.numHour, 24 - (drv.req.hour % 24))
    /\ LaterDone(drv) =>
          /\ drv.chunk.n = Min(24, drv.req.numHour - Before(drv))
          /\ drv.chunk.initHour % 24 = 0
          /\ drv.chunk.initHour \in 0..(YearHours(drv.chunk.year) - 24)
          /\ HoursSince(drv.req.year, drv.chunk.year, drv.chunk.initHour)
                = drv.req.hour + Before(drv)

\* Of a request for 33 hours from 30 hours before the end of 2023 the first
\* chunk had the 6 hours to the end of the day, and the chunk after it the
\* 24 hours of the last day of 2023
C20_Witness ==
    /\ drv.pc = "loop" /\ drv.chunk.kind = "later"
    /\ drv.req.year = 2023 /\ drv.req.hour = 365 * 24 - 30
    /\ drv.req.numHour = 33
    /\ drv.chunk.year = 2023 /\ drv.chunk.initHour = 365 * 24 - 24
    /\ drv.chunk.n = 24 /\ Len(drv.data) = 6 + 24

\* A line of the block of year y in the yearly file f carries another year
WrongYearTag(f, y) ==
    \E k \in 0..4 :
        /\ 5 * (y - f.first) + 1 + k \in 1..f.nlines
        /\ Ft03Tag(f, 5 * (y - f.first) + 1 + k) # y

\* C21: read_ft03 fails whenever the year tag parsed from any of the five
\* lines of the requested block differs from the requested year: a load
\* that read the yearly file for a year whose block has such a line did not
\* succeed.
C21_EveryYearTagChecked ==
    last.op = "LoadConstit" /\ last.opened03 /\ last.year >= ft03.first
        /\ WrongYearTag(ft03, last.year) => ~last.ok

---------------------------------------------------------------------------
(* SpecFt03: one call of read_ft03 on arrays that hold anything, for a     *)
(* year around the first of a yearly file of any length                    *)

\* The lines of the longest yearly file
MaxLines == 16

\* The first years of the yearly files
Ft03First == {1800, 2022}

\* Yearly files of every length up to MaxLines, with the right year tags
Ft03Shapes ==
    {[first |-> f, nlines |-> n, badline |-> 0] :
        f \in Ft03First, n \in 0..MaxLines}

\* The years asked for: the year before the file's first to the year of
\* the block the longest file ends in
ReadYears(f) == (f.first - 1)..(f.first + (MaxLines \div 5))

InitFt03 ==
    /\ ft03 \in Ft03Shapes /\ ft07 = GoodFt07 /\ ft08 = GoodFt08
    /\ \E g \in Garbage : tc = TideConstitType(g) /\ st = SecondaryType(g)
    /\ \E y \in ReadYears(ft03) : last = [NoCall EXCEPT !.year = y]
    /\ prev = NoCall
    /\ drv = Idle
    /\ syn = NoSyn

\* A caller calls read_ft03(ft03, year, tc.xode, tc.vpu)
CallReadFt03 ==
    /\ last.op = "none"
    /\ \E r \in {read_ft03(ft03, last.year, tc.xode, tc.vpu)} :
          /\ tc' = [tc EXCEPT !.xode = r.xode, !.vpu = r.vpu]
          /\ last' = [last EXCEPT !.op = "read_ft03", !.ok = r.ok, !.n = 1]
    /\ prev' = last
    /\ UNCHANGED <<ft03, ft07, ft08, st, drv, syn>>

NextFt03 == CallReadFt03

SpecFt03 == InitFt03 /\ [][NextFt03]_vars

\* The file line (1-based) that entry i of a block starting at line b is
\* written on: eight entries to a line
EntryLine(b, i) == b + ((i - 1) \div 8)

\* C22: for every requested year y >= firstYear, with d = y - firstYear,
\* read_ft03 fills the 37 entries from exactly file lines 5d+1 to 5d+5,
\* also for d = 0; it fails when y < firstYear and when the file ends
\* before line 5d+5.
C22_BlockLines ==
    last.op = "read_ft03" =>
        LET d == last.year - ft03.first
        IN  /\ last.ok <=> (d >= 0 /\ ft03.nlines >= 5 * d + 5)
            /\ last.ok =>
                  \A i \in Idx :
                      /\ tc.xode[i]
                            = Xode03(Ft03Year(ft03, EntryLine(5 * d + 1, i)), i)
                      /\ tc.vpu[i]
                            = Vpu03(Ft03Year(ft03, EntryLine(5 * d + 1, i)), i)
                      /\ Ft03Year(ft03, EntryLine(5 * d + 1, i)) = last.year

\* The first year of a file of ten lines was read into arrays that held
\* something else
C22_Witness ==
    /\ last.op = "read_ft03" /\ last.ok
    /\ last.year = ft03.first /\ ft03.nlines = 10
    /\ prev.op = "none"
    /\ tc.ang = Empty(1005)
    /\ tc.xode # Empty(1005)

\* One iteration written out: the reference time from the extrema of the
\* bracket b and the reference tide of ref, and the tide there
Once(locT, b, ref) ==
    RefPoint(st, RefTime(st, locT, b.hMax, b.hMin, ref.z), syn.z0,
             syn.f_seasonal)

\* Five iterations from the guess, all with the extrema of the bracket b
FiveTimes(locT, b, guess) ==
    Once(locT, b, Once(locT, b, Once(locT, b, Once(locT, b, Once(locT, b,
        RefPoint(st, guess, syn.z0, syn.f_seasonal))))))

RECURSIVE FiveStepSample(_)
\* Sample k (from 1) of the call in syn, computed with five iterations and a
\* bracket fixed before the first: the bracket is searched at the first
\* guess of sample 1 and, for a later sample, at its first guess when this
\* lies after both extrema of the bracket of the sample before
FiveStepSample(k) ==
    LET locT  == syn.t + (k - 1) * syn.delt
        p     == FiveStepSample(k - 1)
        guess == IF k = 1 THEN FirstGuess(st, locT) ELSE p.t + syn.delt
        b     == IF k = 1 \/ (guess > p.b.tMax /\ guess > p.b.tMin)
                 THEN tide_MaxMin(st.tc, guess, syn.z0, syn.f_seasonal)
                 ELSE p.b
        ref   == FiveTimes(locT, b, guess)
    IN  [t |-> ref.t, b |-> b, z |-> Adjust(st, ref.z, b.hMax, b.hMin)]

\* C23: secTide_t and each sample of secTide_hours perform exactly 5
\* refinement iterations of the reference time, with hMax and hMin fixed
\* before the first iteration: the heights returned are those of five
\* iterations written out over one bracket.
C23_FiveFixedIterations ==
    /\ syn.op = "secTide_t" /\ syn.res.ok =>
          syn.res.z = FiveStepSample(1).z
    /\ syn.op = "secTide_hours" /\ syn.res.ok =>
          \A k \in 1..syn.n : syn.res.zhr[k] = FiveStepSample(k).z

\* A series of MaxCount samples for a station whose highs and lows are
\* shifted by different times was returned, and the iterations of its
\* second sample moved the reference time off the first guess
C23_Witness ==
    /\ syn.op = "secTide_hours" /\ syn.res.ok /\ syn.n = MaxCount
    /\ st.maxTime # st.minTime
    /\ FiveStepSample(2).t # FiveStepSample(1).t + syn.delt

\* The tide of the call in syn, delta ticks from its time
TideNear(delta) == tide_t(tc, syn.t + delta, syn.z0, syn.f_seasonal).z

\* C24: whenever tide_MaxMin(tc, t, ...) returns, the two extrema straddle
\* t: min(tMax, tMin) < t <= max(tMax, tMin), the extremum to the left being
\* the low where the curve falls to the left of t and the high where it
\* rises to the left of t.
C24_ExtremaStraddle ==
    syn.op = "tide_MaxMin" /\ syn.res.ok /\ ~syn.res.hang =>
        /\ Min(syn.res.tMax, syn.res.tMin) < syn.t
        /\ syn.t <= Max(syn.res.tMax, syn.res.tMin)
        /\ TideNear(-MAX_RES) < TideNear(0) => syn.res.tMin < syn.t
        /\ TideNear(-MAX_RES) > TideNear(0) => syn.res.tMax < syn.t

\* The extrema around a time where the tide of station 1 in 2023 rises to
\* the left were returned, the high to the left
C24_Witness ==
    /\ syn.op = "tide_MaxMin" /\ syn.res.ok /\ ~syn.res.hang
    /\ tc.nsta = 1 /\ tc.year = 2023
    /\ TideNear(-MAX_RES) > TideNear(0)
    /\ syn.res.tMax < syn.t /\ syn.t <= syn.res.tMin
    /\ syn.res.hMax > syn.res.hMin

\* The line of the adjustment file f lacks a '|' after one of its fields,
\* or a ':' in one of its two time offsets
LacksDelimiter(x) == x.pipes - 1 < 11 \/ ~x.maxT.colon \/ ~x.minT.colon

\* The adjustment file f holds no record of secSta, or one that lacks a
\* delimiter
NoGoodRecord(f, secSta) ==
    \/ \A n \in 1..Len(f) : f[n].comment \/ f[n].pipes = 0 \/ f[n].id # secSta
    \/ \E n \in 1..Len(f) :
          /\ n = FindStation(f, 1, secSta)
          /\ LacksDelimiter(f[n])

\* C25: LoadSecond fails when no non-comment line of the adjustment file
\* has a leading id equal to the requested secondary id, and when a field
\* of the matching line lacks its '|' or a time field its ':': no call of
\* LoadSecond for such an id returns.
C25_MalformedRecordFails ==
    last.op = "LoadSecond" /\ NoGoodRecord(ft08, last.nsta) => ~last.ok

\* C26: whenever tide_MaxMin returns, hMax is strictly greater than hMin,
\* and secTide_t never takes the weights of its extrema over a difference of
\* zero: on a flat curve the search does not return.
C26_ExtremaDiffer ==
    /\ syn.op = "tide_MaxMin" /\ syn.res.ok /\ ~syn.res.hang =>
          syn.res.hMax > syn.res.hMin
    /\ syn.op = "secTide_t" => syn.res.err # "nan"

\* The extrema were returned for a time at which the tide equals the tide
\* MAX_RES before it
C26_Witness ==
    /\ syn.op = "tide_MaxMin" /\ syn.res.ok /\ ~syn.res.hang
    /\ TideNear(-MAX_RES) = TideNear(0)
    /\ syn.res.hMax > syn.res.hMin

\* The record the adjustment file f holds for the id s is cached under
Record(f, s) == f[FindStation(f, 1, s.secSta)]

\* The offsets, the scales and the reference station of s are those of the
\* record of its id
HoldsItsRecord(f, s) ==
    /\ FindStation(f, 1, s.secSta) # 0
    /\ ~LacksDelimiter(Record(f, s))
    /\ s.maxTime = TimeMinutes(Record(f, s).maxT)
    /\ s.minTime = TimeMinutes(Record(f, s).minT)
    /\ s.maxAdj = Record(f, s).maxAdj /\ s.minAdj = Record(f, s).minAdj
    /\ s.tc.nsta = Record(f, s).ref

\* C27: a LoadSecond call that raises leaves st.secSta unchanged, and
\* secTide_t never succeeds with the offsets or the reference constituents
\* of a different or partly parsed station: whenever its guard lets it
\* through, st holds the record of st.secSta.
C27_FailedSecondLeavesId ==
    last.op = "LoadSecond" =>
        /\ ~last.ok => st.secSta = last.before.secSta
        /\ SecGuard(st) = "" => HoldsItsRecord(ft08, st)

\* C28: every year for which TideC_stn requests constituents during one
\* call, the years entered by the chunked loop included, lies in
\* [1800, 2045].
C28_LoadedYearsInTable ==
    \A k \in 1..Len(drv.years) : 1800 <= drv.years[k] /\ drv.years[k] <= 2045

\* The tide of station s at T ticks after the start of year y, T lying in y
\* or in the year after it, from the constituents of the year T lies in
TideAt(this, next, y, T, z0, f_seasonal) ==
    IF T < YearHours(y) * TicksPerHour
    THEN tide_t(this, T, z0, f_seasonal).z
    ELSE tide_t(next, T - YearHours(y) * TicksPerHour, z0, f_seasonal).z

\* C29: for every accepted step, sample k of the series TideC_stn returns
\* is evaluated at startHour + k * step, counted from the start of the year
\* that time lies in, on the chunked path as on the single-call path.
\* Stated for primary stations and requests of at most MaxBack + MaxOver
\* samples, which cross at most one year boundary.
C29_SamplesOneStepApart ==
    drv.pc = "done" /\ ~drv.req.is_secondary
        /\ drv.req.numHour <= MaxBack + MaxOver =>
        With(Loaded(drv.req.year, drv.req.station), LAMBDA this :
        With(Loaded(drv.req.year + 1, drv.req.station), LAMBDA next :
             \A k \in 0..(Len(drv.data) - 1) :
                 drv.data[k + 1]
                     = TideAt(this, next, drv.req.year,
                              drv.req.hour * TicksPerHour + k * drv.req.delt,
                              drv.initHeight, drv.req.is_seasonal)))

\* The minutes a time field stands for: "H:MM" for H * 60 + MM, and
\* "-H:MM" for the negation of that
SignedMinutes(x) == (IF x.neg THEN -1 ELSE 1) * (x.hr * 60 + x.mn)

\* C30: LoadSecond parses a time field written "-H:MM" to the negation of
\* the value it parses for "H:MM", -(H * 60 + MM) minutes, also for H = 0:
\* after a LoadSecond that read the record of its id, st.maxTime and
\* st.minTime are the signed minutes of the record's time fields.
C30_NegativeTimeNegates ==
    last.op = "LoadSecond" /\ last.ok /\ last.opened08 =>
        /\ st.maxTime = SignedMinutes(Record(ft08, st).maxT)
        /\ st.minTime = SignedMinutes(Record(ft08, st).minT)

===========================================================================
